---- MODULE Spec2Model ----
(***************************************************************************)
(* Calorie resolution service of the Calorie-Tracker backend:              *)
(* FoodService (validation, cache lookup, best-match selection, cache      *)
(* population), USDAProvider.calculateCalories and the single-dish and     *)
(* batch endpoints of calorieController.                                   *)
(*                                                                         *)
(* Strings are sequences of one-character strings, so that trim(),         *)
(* toLowerCase(), includes() and template concatenation are computed.      *)
(* Servings, which may be fractional, are held in                          *)
(* halves: the integer h stands for the number h/2. Nutrient values are    *)
(* held in quarters: the integer q stands for the number q/4.              *)
(***************************************************************************)
EXTENDS Integers, Sequences, FiniteSets, TLC

(***************************************************************************)
(* Bounds of the model                                                     *)
(***************************************************************************)
\* seconds the clock advances in one Tick
TickSeconds == 2400
\* number of Ticks a behaviour may take
MaxTicks == 2
\* upstream /foods/search requests a behaviour may issue
MaxUpstream == 2

(***************************************************************************)
(* Program constants                                                       *)
(***************************************************************************)
stdTTL == 3600
MaxServings == 50
MaxDishNameLength == 200
MaxBatchSize == 10
SearchTTL == 900
DetailsTTL == 86400
MinQueryLength == 2

(***************************************************************************)
(* JavaScript values                                                       *)
(***************************************************************************)
\* null / undefined, and a present number
Null == [some |-> FALSE, v |-> 0]
Some(x) == [some |-> TRUE, v |-> x]
\* JavaScript truthiness of a nullable integer: null and 0 are falsy
Truthy(x) == x.some /\ x.v # 0

\* a servings argument: a finite number (in halves), null or NaN; the
\* operators below also cover Infinity (t = "Infinity") and a number given
\* as a string (t = "string")
Num(h) == [t |-> "number", h |-> h]
NullServings == [t |-> "null", h |-> 0]
NaNServings == [t |-> "NaN", h |-> 0]

\* !servings
ServingsFalsy(s) ==
  \/ s.t = "null"
  \/ s.t = "NaN"
  \/ s.t = "number" /\ s.h = 0

\* typeof servings === 'number'
ServingsIsNumber(s) == s.t \in {"number", "NaN", "Infinity"}

\* servings <= 0 (a string such as "2" is coerced to its number)
ServingsLeqZero(s) ==
  \/ s.t \in {"number", "string"} /\ s.h <= 0
  \/ s.t = "null"

\* servings > 50
ServingsGtMax(s) ==
  \/ s.t \in {"number", "string"} /\ s.h > 2 * MaxServings
  \/ s.t = "Infinity"

(***************************************************************************)
(* String.prototype functions                                              *)
(***************************************************************************)
WhiteSpace == {" ", "\t"}

UpperCase == <<"A","B","C","D","E","F","G","H","I","J","K","L","M",
               "N","O","P","Q","R","S","T","U","V","W","X","Y","Z">>
LowerCase == <<"a","b","c","d","e","f","g","h","i","j","k","l","m",
               "n","o","p","q","r","s","t","u","v","w","x","y","z">>

UpperCaseLetters == {UpperCase[i] : i \in 1..Len(UpperCase)}

LowerChar(c) ==
  IF c \in UpperCaseLetters
  THEN LowerCase[CHOOSE i \in 1..Len(UpperCase) : UpperCase[i] = c]
  ELSE c

\* s.toLowerCase()
toLowerCase(s) == [i \in 1..Len(s) |-> LowerChar(s[i])]

\* s.trim()
trim(s) ==
  IF \A i \in 1..Len(s) : s[i] \in WhiteSpace THEN <<>>
  ELSE LET n == Len(s)
           \* whitespace characters at the start and at the end
           lead == CHOOSE k \in 0..(n - 1) :
                     /\ s[k + 1] \notin WhiteSpace
                     /\ \A j \in 1..k : s[j] \in WhiteSpace
           trail == CHOOSE k \in 0..(n - 1) :
                      /\ s[n - k] \notin WhiteSpace
                      /\ \A j \in 1..k : s[n + 1 - j] \in WhiteSpace
       IN SubSeq(s, lead + 1, n - trail)

\* s.includes(pattern)
includes(s, pattern) ==
  \E i \in 1..(Len(s) - Len(pattern) + 1) :
     SubSeq(s, i, i + Len(pattern) - 1) = pattern

Digits == <<"0","1","2","3","4","5","6","7","8","9">>

RECURSIVE NatToString(_)
NatToString(n) ==
  IF n < 10 THEN <<Digits[n + 1]>>
  ELSE NatToString(n \div 10) \o <<Digits[(n % 10) + 1]>>

\* `${servings}` for a number held in halves
NumberToString(h) ==
  LET a == IF h < 0 THEN -h ELSE h
      sign == IF h < 0 THEN <<"-">> ELSE <<>>
  IN sign \o NatToString(a \div 2) \o (IF a % 2 = 1 THEN <<".", "5">> ELSE <<>>)

ServingsToString(s) ==
  CASE s.t \in {"number", "string"} -> NumberToString(s.h)
    [] s.t = "null" -> <<"n","u","l","l">>
    [] s.t = "NaN" -> <<"N","a","N">>
    [] OTHER -> <<"I","n","f","i","n","i","t","y">>

\* Math.round of a number held in halves: nearest integer, ties upwards
MathRound(h) == (h + 1) \div 2

\* Math.round of a number held in quarters
MathRoundQuarters(q) == (q + 2) \div 4

\* n copies of the character c
Repeat(c, n) == [i \in 1..n |-> c]

(***************************************************************************)
(* Food candidates (USDAProvider._transformSearchResults output)           *)
(***************************************************************************)
\* description, calories (integer or null), nutrients.energy.value (in
\* quarters, or absent), score
Candidate(d, c, e, sc) ==
  [description |-> d, calories |-> c, energy |-> e, score |-> sc]

(***************************************************************************)
(* node-cache as FoodService uses it (useClones, deleteOnExpire defaults)  *)
(***************************************************************************)
\* new NodeCache(): no entry
EmptyCache == [k \in {} |-> Null]

\* an entry whose expiry instant lies before now is expired
Expired(entry, t) == entry.t # 0 /\ entry.t < t

\* CacheHit with the expiry test inverted
CacheHitInverted(c, key, t) == key \in DOMAIN c /\ Expired(c[key], t)

\* cache.get(key): hit exactly when the key is stored and not expired
CacheHit(c, key, t) == key \in DOMAIN c /\ ~Expired(c[key], t)

\* the cache after cache.get(key): an expired entry found by get is deleted
CacheAfterGet(c, key, t) ==
  IF key \in DOMAIN c /\ Expired(c[key], t)
  THEN [k \in DOMAIN c \ {key} |-> c[k]]
  ELSE c

\* CacheSet giving every entry the standard lifetime
CacheSetIgnoringTtl(c, key, value, ttl, t) ==
  [k \in DOMAIN c \cup {key} |->
     IF k = key THEN [v |-> value, t |-> t + stdTTL] ELSE c[k]]

\* cache.set(key, value, ttl) at instant t
CacheSet(c, key, value, ttl, t) ==
  [k \in DOMAIN c \cup {key} |->
     IF k = key THEN [v |-> value, t |-> t + ttl] ELSE c[k]]

\* cache.del(keys)
CacheDel(c, keys) == [k \in DOMAIN c \ keys |-> c[k]]

\* the periodic _checkData: every expired entry is deleted
CacheCheckData(c, t) ==
  [k \in {x \in DOMAIN c : ~Expired(c[x], t)} |-> c[k]]

(***************************************************************************)
(* FoodService helpers                                                     *)
(***************************************************************************)
NoError == ""

\* _validateInput with the length of the name checked before the servings
_validateInputNameFirst(dishName, servings) ==
  IF Len(dishName) = 0 \/ Len(trim(dishName)) = 0
  THEN "Dish name is required and must be a non-empty string"
  ELSE IF Len(dishName) > MaxDishNameLength
  THEN "Dish name too long (maximum 200 characters)"
  ELSE IF ServingsFalsy(servings) \/ ~ServingsIsNumber(servings)
          \/ ServingsLeqZero(servings)
  THEN "Servings must be a positive number"
  ELSE IF ServingsGtMax(servings)
  THEN "Maximum 50 servings allowed"
  ELSE NoError

\* FoodService._validateInput: the message thrown, or NoError
_validateInput(dishName, servings) ==
  IF Len(dishName) = 0 \/ Len(trim(dishName)) = 0
  THEN "Dish name is required and must be a non-empty string"
  ELSE IF ServingsFalsy(servings) \/ ~ServingsIsNumber(servings)
          \/ ServingsLeqZero(servings)
  THEN "Servings must be a positive number"
  ELSE IF ServingsGtMax(servings)
  THEN "Maximum 50 servings allowed"
  ELSE IF Len(dishName) > MaxDishNameLength
  THEN "Dish name too long (maximum 200 characters)"
  ELSE NoError

CaloriesPrefix == <<"c","a","l","o","r","i","e","s","_">>

\* _generateCacheKey with the dish name lower-cased but not trimmed
_generateCacheKeyUntrimmed(dishName, servings) ==
  CaloriesPrefix \o toLowerCase(dishName) \o <<"_">>
    \o ServingsToString(servings)

\* FoodService._generateCacheKey
_generateCacheKey(dishName, servings) ==
  CaloriesPrefix \o trim(toLowerCase(dishName)) \o <<"_">>
    \o ServingsToString(servings)

\* index of the first element of list satisfying P, 0 when there is none
FindIndex(list, P(_)) ==
  IF \E i \in 1..Len(list) : P(list[i])
  THEN CHOOSE i \in 1..Len(list) :
         /\ P(list[i])
         /\ \A j \in 1..(i - 1) : ~P(list[j])
  ELSE 0

\* _findBestMatch returning the first candidate whatever it holds
_findBestMatchFirstResult(dishName, searchResults) ==
  IF Len(searchResults) = 0
  THEN [index |-> 0, list |-> searchResults]
  ELSE [index |-> 1, list |-> searchResults]

\* _findBestMatch whose third rule derives the calories of every candidate
\* with an energy value greater than 0 and returns the last of them
_findBestMatchDerivingAll(dishName, searchResults) ==
  LET IsExact(item) == toLowerCase(item.description) = toLowerCase(dishName)
      HasCalories(item) == item.calories.some /\ item.calories.v > 0
      HasEnergy(item) == item.energy.some /\ item.energy.v > 0
      exactMatch == FindIndex(searchResults, IsExact)
      withCalories == FindIndex(searchResults, HasCalories)
      lastWithEnergy ==
        IF \E i \in 1..Len(searchResults) : HasEnergy(searchResults[i])
        THEN CHOOSE i \in 1..Len(searchResults) :
               /\ HasEnergy(searchResults[i])
               /\ \A j \in (i + 1)..Len(searchResults) :
                    ~HasEnergy(searchResults[j])
        ELSE 0
      SetCalories(i, c) ==
        [searchResults EXCEPT ![i].calories = Some(c)]
  IN IF Len(searchResults) = 0
     THEN [index |-> 0, list |-> searchResults]
     ELSE IF exactMatch # 0 /\ Truthy(searchResults[exactMatch].calories)
     THEN [index |-> exactMatch, list |-> searchResults]
     ELSE IF withCalories # 0
     THEN [index |-> withCalories, list |-> searchResults]
     ELSE IF lastWithEnergy # 0
     THEN [index |-> lastWithEnergy,
           list |-> [i \in 1..Len(searchResults) |->
                       IF HasEnergy(searchResults[i])
                       THEN [searchResults[i] EXCEPT
                               !.calories =
                                 Some(MathRoundQuarters(searchResults[i].energy.v))]
                       ELSE searchResults[i]]]
     ELSE IF searchResults[1].energy.some
     THEN [index |-> 1,
           list |-> SetCalories(1, MathRoundQuarters(searchResults[1].energy.v))]
     ELSE [index |-> 1, list |-> searchResults]

\* _findBestMatch without its second rule
_findBestMatchWithoutRule2(dishName, searchResults) ==
  LET IsExact(item) == toLowerCase(item.description) = toLowerCase(dishName)
      HasEnergy(item) == item.energy.some /\ item.energy.v > 0
      exactMatch == FindIndex(searchResults, IsExact)
      withEnergyNutrient == FindIndex(searchResults, HasEnergy)
      SetCalories(i, c) ==
        [searchResults EXCEPT ![i].calories = Some(c)]
  IN IF Len(searchResults) = 0
     THEN [index |-> 0, list |-> searchResults]
     ELSE IF exactMatch # 0 /\ Truthy(searchResults[exactMatch].calories)
     THEN [index |-> exactMatch, list |-> searchResults]
     ELSE IF withEnergyNutrient # 0
     THEN [index |-> withEnergyNutrient,
           list |-> SetCalories(withEnergyNutrient,
                      MathRoundQuarters(searchResults[withEnergyNutrient].energy.v))]
     ELSE IF searchResults[1].energy.some
     THEN [index |-> 1,
           list |-> SetCalories(1, MathRoundQuarters(searchResults[1].energy.v))]
     ELSE [index |-> 1, list |-> searchResults]

\* FoodService._findBestMatch: the index of the returned candidate (0 for
\* null) and the search list as the function leaves it (rules 3 and 4
\* assign the calories of the candidate they pick)
_findBestMatch(dishName, searchResults) ==
  LET IsExact(item) == toLowerCase(item.description) = toLowerCase(dishName)
      HasCalories(item) == item.calories.some /\ item.calories.v > 0
      HasEnergy(item) == item.energy.some /\ item.energy.v > 0
      exactMatch == FindIndex(searchResults, IsExact)
      withCalories == FindIndex(searchResults, HasCalories)
      withEnergyNutrient == FindIndex(searchResults, HasEnergy)
      SetCalories(i, c) ==
        [searchResults EXCEPT ![i].calories = Some(c)]
  IN IF Len(searchResults) = 0
     THEN [index |-> 0, list |-> searchResults]
     ELSE IF exactMatch # 0 /\ Truthy(searchResults[exactMatch].calories)
     THEN [index |-> exactMatch, list |-> searchResults]
     ELSE IF withCalories # 0
     THEN [index |-> withCalories, list |-> searchResults]
     ELSE IF withEnergyNutrient # 0
     THEN [index |-> withEnergyNutrient,
           list |-> SetCalories(withEnergyNutrient,
                      MathRoundQuarters(searchResults[withEnergyNutrient].energy.v))]
     ELSE IF searchResults[1].energy.some
     THEN [index |-> 1,
           list |-> SetCalories(1, MathRoundQuarters(searchResults[1].energy.v))]
     ELSE [index |-> 1, list |-> searchResults]

\* _handleError without its table of messages
_handleErrorPassThrough(message) == message

\* FoodService._handleError: the user-facing message of a thrown message
_handleError(message) ==
  CASE message = "Dish not found" ->
         "Sorry, we could not find that dish in our database"
    [] message = "Invalid servings" ->
         "Please enter a valid number of servings (greater than 0)"
    [] message = "USDA API rate limit exceeded" ->
         "Service temporarily busy, please try again in a few minutes"
    [] message = "USDA API service unavailable" ->
         "Food database service is temporarily unavailable"
    [] message = "Invalid USDA API key" ->
         "Food database service configuration error"
    [] OTHER -> message

(***************************************************************************)
(* USDAProvider                                                            *)
(***************************************************************************)
ProviderName == "USDA FoodData Central"

\* USDAProvider.calculateCalories: the message thrown, or NoError
calculateCaloriesError(foodItem, servings) ==
  IF ~Truthy(foodItem.calories)
  THEN "Invalid food item or missing calorie data"
  ELSE IF ServingsFalsy(servings) \/ ServingsLeqZero(servings)
  THEN "Servings must be a positive number"
  ELSE NoError

\* calculateCalories with the total truncated instead of rounded
calculateCaloriesTruncating(foodItem, servings) ==
  [dish_name |-> foodItem.description,
   servings |-> servings,
   calories_per_serving |-> foodItem.calories.v,
   total_calories |-> (foodItem.calories.v * servings.h) \div 2,
   source |-> ProviderName,
   nutrients |-> foodItem.energy]

\* USDAProvider.calculateCalories: the object returned
calculateCalories(foodItem, servings) ==
  [dish_name |-> foodItem.description,
   servings |-> servings,
   calories_per_serving |-> foodItem.calories.v,
   total_calories |-> MathRound(foodItem.calories.v * servings.h),
   source |-> ProviderName,
   nutrients |-> foodItem.energy]

\* an upstream failure: the HTTP status of the response (0 when no response
\* arrived: network failure or timeout) and the upstream message
Failure(status, detail) == [status |-> status, detail |-> detail]

\* ProviderHandleError without the default status of a failure that has no
\* response
ProviderHandleErrorNoDefault(failure) ==
  LET statusCode == failure.status
  IN IF statusCode = 401 THEN "Invalid USDA API key"
     ELSE IF statusCode = 403 THEN "USDA API access denied"
     ELSE IF statusCode = 429 THEN "USDA API rate limit exceeded"
     ELSE IF statusCode >= 500 THEN "USDA API service unavailable"
     ELSE "USDA API error: " \o failure.detail

\* USDAProvider._handleError: the message thrown for an upstream failure
ProviderHandleError(failure) ==
  LET statusCode == IF failure.status = 0 THEN 500 ELSE failure.status
  IN IF statusCode = 401 THEN "Invalid USDA API key"
     ELSE IF statusCode = 403 THEN "USDA API access denied"
     ELSE IF statusCode = 429 THEN "USDA API rate limit exceeded"
     ELSE IF statusCode >= 500 THEN "USDA API service unavailable"
     ELSE "USDA API error: " \o failure.detail


(***************************************************************************)
(* FoodService.getCalories, in the two parts its one await separates       *)
(***************************************************************************)
NoResult == [dish_name |-> <<>>]

\* one run of getCalories up to its return, throw or await: what it does
\* (kind), the message thrown, the result returned, the cache it leaves, and
\* which of cache.get, calculateCalories and cache.set it invoked
Step(kind, error, result, c, read, calc, wrote) ==
  [kind |-> kind, error |-> error, result |-> result, cache |-> c,
   read |-> read, calc |-> calc, wrote |-> wrote]

\* from entry to the await of provider.searchFood
GetCaloriesEnter(c, dishName, servings, t) ==
  LET invalid == _validateInput(dishName, servings)
      cacheKey == _generateCacheKey(dishName, servings)
  IN IF invalid # NoError
     THEN Step("throw", _handleError(invalid), NoResult, c,
               FALSE, FALSE, FALSE)
     ELSE IF CacheHit(c, cacheKey, t)
     THEN Step("return", NoError, c[cacheKey].v, c, TRUE, FALSE, FALSE)
     ELSE Step("await", NoError, NoResult, CacheAfterGet(c, cacheKey, t),
               TRUE, FALSE, FALSE)

\* what provider.searchFood settles with: a candidate list, or a failure
Found(list) == [ok |-> TRUE, list |-> list, failure |-> Failure(0, "")]
Failed(failure) == [ok |-> FALSE, list |-> <<>>, failure |-> failure]

\* GetCaloriesResume without the check of the best match's calories
GetCaloriesResumeUnchecked(c, dishName, servings, settled, t) ==
  LET cacheKey == _generateCacheKey(dishName, servings)
      searchResults == settled.list
      best == _findBestMatch(dishName, searchResults)
      bestMatch == best.list[best.index]
      calcError == calculateCaloriesError(bestMatch, servings)
      result == calculateCalories(bestMatch, servings) @@
                [searchResults |-> Len(searchResults),
                 matchScore |-> bestMatch.score,
                 timestamp |-> t]
  IN IF ~settled.ok
     THEN Step("throw", _handleError(ProviderHandleError(settled.failure)),
               NoResult, c, FALSE, FALSE, FALSE)
     ELSE IF Len(searchResults) = 0
     THEN Step("throw", _handleError("Dish not found"), NoResult, c,
               FALSE, FALSE, FALSE)
     ELSE IF calcError # NoError
     THEN Step("throw", _handleError(calcError), NoResult, c,
               FALSE, TRUE, FALSE)
     ELSE Step("return", NoError, result,
               CacheSet(c, cacheKey, result, stdTTL, t), FALSE, TRUE, TRUE)

\* GetCaloriesResume annotating the result with the score of the first
\* candidate of the list
GetCaloriesResumeFirstScore(c, dishName, servings, settled, t) ==
  LET cacheKey == _generateCacheKey(dishName, servings)
      searchResults == settled.list
      best == _findBestMatch(dishName, searchResults)
      bestMatch == best.list[best.index]
      calcError == calculateCaloriesError(bestMatch, servings)
      result == calculateCalories(bestMatch, servings) @@
                [searchResults |-> Len(searchResults),
                 matchScore |-> searchResults[1].score,
                 timestamp |-> t]
  IN IF ~settled.ok
     THEN Step("throw", _handleError(ProviderHandleError(settled.failure)),
               NoResult, c, FALSE, FALSE, FALSE)
     ELSE IF Len(searchResults) = 0
     THEN Step("throw", _handleError("Dish not found"), NoResult, c,
               FALSE, FALSE, FALSE)
     ELSE IF best.index = 0 \/ ~Truthy(bestMatch.calories)
     THEN Step("throw",
               _handleError("Dish not found or calorie information unavailable"),
               NoResult, c, FALSE, FALSE, FALSE)
     ELSE IF calcError # NoError
     THEN Step("throw", _handleError(calcError), NoResult, c,
               FALSE, TRUE, FALSE)
     ELSE Step("return", NoError, result,
               CacheSet(c, cacheKey, result, stdTTL, t), FALSE, TRUE, TRUE)

\* GetCaloriesResume caching a placeholder when no calorie value is found
GetCaloriesResumeCachingFailure(c, dishName, servings, settled, t) ==
  LET cacheKey == _generateCacheKey(dishName, servings)
      searchResults == settled.list
      best == _findBestMatch(dishName, searchResults)
      bestMatch == best.list[best.index]
      calcError == calculateCaloriesError(bestMatch, servings)
      result == calculateCalories(bestMatch, servings) @@
                [searchResults |-> Len(searchResults),
                 matchScore |-> bestMatch.score,
                 timestamp |-> t]
  IN IF ~settled.ok
     THEN Step("throw", _handleError(ProviderHandleError(settled.failure)),
               NoResult, c, FALSE, FALSE, FALSE)
     ELSE IF Len(searchResults) = 0
     THEN Step("throw", _handleError("Dish not found"), NoResult, c,
               FALSE, FALSE, FALSE)
     ELSE IF best.index = 0 \/ ~Truthy(bestMatch.calories)
     THEN Step("throw",
               _handleError("Dish not found or calorie information unavailable"),
               NoResult, CacheSet(c, cacheKey, NoResult, stdTTL, t),
               FALSE, FALSE, TRUE)
     ELSE IF calcError # NoError
     THEN Step("throw", _handleError(calcError), NoResult, c,
               FALSE, TRUE, FALSE)
     ELSE Step("return", NoError, result,
               CacheSet(c, cacheKey, result, stdTTL, t), FALSE, TRUE, TRUE)

\* from the settling of provider.searchFood to the return or throw
GetCaloriesResume(c, dishName, servings, settled, t) ==
  LET cacheKey == _generateCacheKey(dishName, servings)
      searchResults == settled.list
      best == _findBestMatch(dishName, searchResults)
      bestMatch == best.list[best.index]
      calcError == calculateCaloriesError(bestMatch, servings)
      result == calculateCalories(bestMatch, servings) @@
                [searchResults |-> Len(searchResults),
                 matchScore |-> bestMatch.score,
                 timestamp |-> t]
  IN IF ~settled.ok
     THEN Step("throw", _handleError(ProviderHandleError(settled.failure)),
               NoResult, c, FALSE, FALSE, FALSE)
     ELSE IF Len(searchResults) = 0
     THEN Step("throw", _handleError("Dish not found"), NoResult, c,
               FALSE, FALSE, FALSE)
     ELSE IF best.index = 0 \/ ~Truthy(bestMatch.calories)
     THEN Step("throw",
               _handleError("Dish not found or calorie information unavailable"),
               NoResult, c, FALSE, FALSE, FALSE)
     ELSE IF calcError # NoError
     THEN Step("throw", _handleError(calcError), NoResult, c,
               FALSE, TRUE, FALSE)
     ELSE Step("return", NoError, result,
               CacheSet(c, cacheKey, result, stdTTL, t), FALSE, TRUE, TRUE)


(***************************************************************************)
(* calorieController.getBatchCalories: the loop over the dishes            *)
(***************************************************************************)
Dish(dishName, servings) == [dish_name |-> dishName, servings |-> servings]

\* !dish.dish_name || !dish.servings
MissingField(dish) == Len(dish.dish_name) = 0 \/ ServingsFalsy(dish.servings)

\* the state of one batch request: the dishes, the index of the dish being
\* processed, the two lists, and for every dish processed so far what
\* happened to it: "skipped" (a required field is missing, getCalories is not
\* called), "threw" or "returned" (what its getCalories call did)
Loop(dishes, i, results, errors, trace) ==
  [dishes |-> dishes, i |-> i, results |-> results, errors |-> errors,
   trace |-> trace]

NoLoop == Loop(<<>>, 0, <<>>, <<>>, <<>>)

ErrorRecord(dish, message) == [dish |-> dish, error |-> message]

\* errors.push({dish, error}) and on to the next dish
PushError(loop, tag, message) ==
  [loop EXCEPT !.i = @ + 1,
     !.errors = Append(@, ErrorRecord(loop.dishes[loop.i], message)),
     !.trace = Append(@, tag)]

\* PushResult putting the result in front of the earlier ones
PushResultFirst(loop, result) ==
  [loop EXCEPT !.i = @ + 1,
     !.results = <<result>> \o @,
     !.trace = Append(@, "returned")]

\* results.push(result) and on to the next dish
PushResult(loop, result) ==
  [loop EXCEPT !.i = @ + 1,
     !.results = Append(@, result),
     !.trace = Append(@, "returned")]

\* the loop from dish i on, as far as it runs without awaiting the provider:
\* it stops at the first dish whose getCalories awaits provider.searchFood
\* (awaiting TRUE) or after the last dish
RECURSIVE RunLoop(_, _, _)
RunLoop(c, loop, t) ==
  IF loop.i > Len(loop.dishes)
  THEN [loop |-> loop, cache |-> c, awaiting |-> FALSE]
  ELSE LET dish == loop.dishes[loop.i]
           step == GetCaloriesEnter(c, dish.dish_name, dish.servings, t)
       IN IF MissingField(dish)
          THEN RunLoop(c,
                 PushError(loop, "skipped",
                           "dish_name and servings are required"), t)
          ELSE IF step.kind = "throw"
          THEN RunLoop(step.cache, PushError(loop, "threw", step.error), t)
          ELSE IF step.kind = "return"
          THEN RunLoop(step.cache, PushResult(loop, step.result), t)
          ELSE [loop |-> loop, cache |-> step.cache, awaiting |-> TRUE]

\* ResumeLoop with the catch block not recording the error
ResumeLoopSwallowing(c, loop, settled, t) ==
  LET dish == loop.dishes[loop.i]
      step == GetCaloriesResume(c, dish.dish_name, dish.servings, settled, t)
  IN IF step.kind = "throw"
     THEN RunLoop(step.cache,
                  [loop EXCEPT !.i = @ + 1, !.trace = Append(@, "threw")], t)
     ELSE RunLoop(step.cache, PushResult(loop, step.result), t)

\* ResumeLoop with a failure ending the loop
ResumeLoopAborting(c, loop, settled, t) ==
  LET dish == loop.dishes[loop.i]
      step == GetCaloriesResume(c, dish.dish_name, dish.servings, settled, t)
  IN IF step.kind = "throw"
     THEN [loop |-> [PushError(loop, "threw", step.error) EXCEPT
                       !.i = Len(loop.dishes) + 1],
           cache |-> step.cache, awaiting |-> FALSE]
     ELSE RunLoop(step.cache, PushResult(loop, step.result), t)

\* the loop resumed when the awaited getCalories of dish i has settled
ResumeLoop(c, loop, settled, t) ==
  LET dish == loop.dishes[loop.i]
      step == GetCaloriesResume(c, dish.dish_name, dish.servings, settled, t)
  IN IF step.kind = "throw"
     THEN RunLoop(step.cache, PushError(loop, "threw", step.error), t)
     ELSE RunLoop(step.cache, PushResult(loop, step.result), t)

\* BatchSizeError without the check for an empty array
BatchSizeErrorNoEmptyCheck(dishes) ==
  IF Len(dishes) > MaxBatchSize
  THEN "Maximum 10 dishes allowed per batch request"
  ELSE NoError

\* the message of the 400 response for the dishes array, or NoError
BatchSizeError(dishes) ==
  IF Len(dishes) = 0
  THEN "Dishes array is required and must not be empty"
  ELSE IF Len(dishes) > MaxBatchSize
  THEN "Maximum 10 dishes allowed per batch request"
  ELSE NoError

\* the 200 response of the batch endpoint
BatchResponse(loop) ==
  [kind |-> "batch", status |-> 200,
   dishes |-> loop.dishes, trace |-> loop.trace,
   results |-> loop.results, errors |-> loop.errors,
   summary |-> [total_requested |-> Len(loop.dishes),
                successful |-> Len(loop.results),
                failed |-> Len(loop.errors)]]

\* the 400 response of the batch endpoint
BatchRejected(dishes, message) ==
  [kind |-> "rejected", status |-> 400, dishes |-> dishes, error |-> message]

\* clearCache matching the pattern at the start of the key only
clearCachePrefix(c, pattern) ==
  LET keys == {key \in DOMAIN c :
                 /\ Len(pattern.text) <= Len(key)
                 /\ SubSeq(key, 1, Len(pattern.text)) = pattern.text}
  IN IF pattern.given /\ Len(pattern.text) > 0
     THEN [cleared |-> Cardinality(keys), all |-> FALSE,
           cache |-> CacheDel(c, keys)]
     ELSE [cleared |-> 0, all |-> TRUE, cache |-> EmptyCache]

\* clearCache reporting 'all' without flushing
clearCacheNoFlush(c, pattern) ==
  LET keys == {key \in DOMAIN c : includes(key, pattern.text)}
  IN IF pattern.given /\ Len(pattern.text) > 0
     THEN [cleared |-> Cardinality(keys), all |-> FALSE,
           cache |-> CacheDel(c, keys)]
     ELSE [cleared |-> 0, all |-> TRUE, cache |-> c]

\* FoodService.clearCache: the object returned (all stands for
\* cleared: 'all') and the cache it leaves; a null or empty pattern flushes
\* everything
clearCache(c, pattern) ==
  LET keys == {key \in DOMAIN c : includes(key, pattern.text)}
  IN IF pattern.given /\ Len(pattern.text) > 0
     THEN [cleared |-> Cardinality(keys), all |-> FALSE,
           cache |-> CacheDel(c, keys)]
     ELSE [cleared |-> 0, all |-> TRUE, cache |-> EmptyCache]

(***************************************************************************)
(* Inputs                                                                  *)
(***************************************************************************)
Callers == {"c1", "c2"}

Pizza == <<"p","i","z","z","a">>
PizzaPadded == <<" ","P","i","z","z","a">>
Blank == <<" ", "\t">>
LongestName == Repeat("a", MaxDishNameLength)
TooLongName == Repeat("a", MaxDishNameLength + 1)
PaddedLongestName == <<" ">> \o Repeat("a", MaxDishNameLength)

Request(dishName, servings) == [dishName |-> dishName, servings |-> servings]

\* the getCalories calls the first caller makes
Requests ==
  {Request(Pizza, s) :
     s \in {Num(3), Num(2 * MaxServings), Num(-2), Num(0),
            Num(2 * MaxServings + 1), NullServings, NaNServings}}
  \cup
  {Request(d, Num(3)) :
     d \in {<<>>, Blank, PizzaPadded, LongestName, TooLongName,
            PaddedLongestName}}
  \cup
  {Request(Blank, Num(0)), Request(TooLongName, Num(0))}

\* the getCalories calls the second caller makes
OtherRequests == {Request(Pizza, Num(3))}

RequestsOf(p) == IF p = "c1" THEN Requests ELSE OtherRequests

\* what the upstream database holds
PizzaExact == Candidate(<<"P","i","z","z","a">>, Some(285), Null, Some(95))
PizzaPie == Candidate(<<"P","i","e">>, Some(101), Some(1616), Some(90))
PizzaEnergyOnly == Candidate(<<"P","i","z","z","a">>, Null, Some(398), Null)
PizzaBare == Candidate(<<"P","i","e">>, Null, Null, Some(80))
PizzaZero == Candidate(<<"P","i","z","z","a">>, Some(0), Null, Some(70))

SearchLists ==
  {<<>>, <<PizzaPie, PizzaExact>>, <<PizzaEnergyOnly>>,
   <<PizzaBare, PizzaZero>>}

Failures ==
  {Failure(429, "too many requests"), Failure(400, "bad request"),
   Failure(0, "timeout of 10000ms exceeded")}

\* what a search for the query may settle with: the database holds pizzas
\* only, and any request may fail
Settlements(query) ==
  {Found(list) :
     list \in IF trim(toLowerCase(query)) = Pizza THEN SearchLists
              ELSE {<<>>}}
  \cup {Failed(f) : f \in Failures}

\* the bodies posted to the batch endpoint
RequiredMissing == Dish(Pizza, Num(0))
NamelessDish == Dish(<<>>, Num(3))
TooManyServings == Dish(Pizza, Num(2 * MaxServings + 1))
GoodDish == Dish(Pizza, Num(3))

Copies(dish, n) == [i \in 1..n |-> dish]

Batches ==
  {<<>>,
   <<GoodDish, TooManyServings, RequiredMissing, GoodDish>>,
   <<Dish(Pizza, Num(2 * MaxServings)), TooManyServings, RequiredMissing,
     GoodDish>>,
   <<GoodDish>> \o Copies(NamelessDish, MaxBatchSize - 1),
   Copies(GoodDish, MaxBatchSize + 1)}

OtherBatches == {}

BatchesOf(p) == IF p = "c1" THEN Batches ELSE OtherBatches

NoPattern == [given |-> FALSE, text |-> <<>>]
Pattern(text) == [given |-> TRUE, text |-> text]

Patterns ==
  {NoPattern, Pattern(<<>>), Pattern(Pizza), Pattern(<<"_","1",".","5">>)}

(***************************************************************************)
(* State                                                                   *)
(***************************************************************************)
VARIABLES
  cache,     \* FoodService.cache: key -> [v: value, t: expiry instant]
  now,       \* the clock, in seconds
  upstream,  \* provider.searchFood calls issued so far
  pc,        \* per caller: "idle", or which handler awaits the provider
  frame,     \* per caller: the arguments of the awaiting getCalories
  loop,      \* per caller: the state of the awaiting batch loop
  last,      \* the outcome of the request that finished last (for a
             \* clearCache with the number of entries it removed); none
             \* once a getCalories call of a batch has finished after it
  flushed    \* the keys the last flushAll removed; none once a
             \* getCalories call has started after it

vars == <<cache, now, upstream, pc, frame, loop, last, flushed>>

NoFrame == Request(<<>>, NullServings)
NoOutcome == [kind |-> "none"]

Init ==
  /\ cache = EmptyCache
  /\ now = 0
  /\ upstream = 0
  /\ pc = [p \in Callers |-> "idle"]
  /\ frame = [p \in Callers |-> NoFrame]
  /\ loop = [p \in Callers |-> NoLoop]
  /\ last = NoOutcome
  /\ flushed = {}

\* the outcome of one getCalories call, as its caller observes it, with what
\* the call did: searched (provider.searchFood calls issued), read
\* (cache.get), hit (served from the cache), calc (calculateCalories), wrote
\* (cache.set), and the instant it finished
CaloriesOutcome(dishName, servings, step, searched, read, t) ==
  [kind |-> "calories", dishName |-> dishName, servings |-> servings,
   ok |-> step.kind = "return", error |-> step.error,
   result |-> step.result, searched |-> searched, read |-> read,
   hit |-> step.kind = "return" /\ searched = 0,
   calc |-> step.calc, wrote |-> step.wrote, at |-> t]

(***************************************************************************)
(* Operations                                                              *)
(***************************************************************************)
\* Resolve joining the search another caller already awaits for the same
\* key instead of issuing its own
ResolveSingleFlight(p, dishName, servings) ==
  LET step == GetCaloriesEnter(cache, dishName, servings, now)
      inFlight ==
        \E q \in Callers \ {p} :
          /\ pc[q] = "resolve"
          /\ _generateCacheKey(frame[q].dishName, frame[q].servings) =
               _generateCacheKey(dishName, servings)
  IN /\ pc[p] = "idle"
     /\ cache' = step.cache
     /\ IF step.kind = "await"
        THEN /\ inFlight \/ upstream < MaxUpstream
             /\ upstream' = IF inFlight THEN upstream ELSE upstream + 1
             /\ pc' = [pc EXCEPT ![p] = "resolve"]
             /\ frame' = [frame EXCEPT ![p] = Request(dishName, servings)]
             /\ last' = last
        ELSE /\ last' = CaloriesOutcome(dishName, servings, step, 0,
                                        step.read, now)
             /\ UNCHANGED <<upstream, pc, frame>>
     /\ flushed' = {}
     /\ UNCHANGED <<now, loop>>

\* a caller invokes foodService.getCalories(dishName, servings): the call
\* runs to its throw, its return of a cached result, or its await of
\* provider.searchFood
Resolve(p, dishName, servings) ==
  LET step == GetCaloriesEnter(cache, dishName, servings, now)
  IN /\ pc[p] = "idle"
     /\ cache' = step.cache
     /\ IF step.kind = "await"
        THEN /\ upstream < MaxUpstream
             /\ upstream' = upstream + 1
             /\ pc' = [pc EXCEPT ![p] = "resolve"]
             /\ frame' = [frame EXCEPT ![p] = Request(dishName, servings)]
             /\ last' = last
        ELSE /\ last' = CaloriesOutcome(dishName, servings, step, 0,
                                        step.read, now)
             /\ UNCHANGED <<upstream, pc, frame>>
     /\ flushed' = {}
     /\ UNCHANGED <<now, loop>>

\* SettleResolve searching again when the search has failed
SettleResolveRetrying(p, settled) ==
  LET dishName == frame[p].dishName
      servings == frame[p].servings
      step == GetCaloriesResume(cache, dishName, servings, settled, now)
  IN /\ pc[p] = "resolve"
     /\ IF ~settled.ok /\ upstream < MaxUpstream
        THEN /\ upstream' = upstream + 1
             /\ UNCHANGED <<cache, pc, frame, last>>
        ELSE /\ cache' = step.cache
             /\ pc' = [pc EXCEPT ![p] = "idle"]
             /\ frame' = [frame EXCEPT ![p] = NoFrame]
             /\ last' = CaloriesOutcome(dishName, servings, step, 1, TRUE, now)
             /\ upstream' = upstream
     /\ UNCHANGED <<now, loop, flushed>>

\* provider.searchFood settles for a caller awaiting it in getCalories
SettleResolve(p, settled) ==
  LET dishName == frame[p].dishName
      servings == frame[p].servings
      step == GetCaloriesResume(cache, dishName, servings, settled, now)
  IN /\ pc[p] = "resolve"
     /\ cache' = step.cache
     /\ pc' = [pc EXCEPT ![p] = "idle"]
     /\ frame' = [frame EXCEPT ![p] = NoFrame]
     /\ last' = CaloriesOutcome(dishName, servings, step, 1, TRUE, now)
     /\ UNCHANGED <<now, upstream, loop, flushed>>

\* getCalories has been called for one of the dishes from position from on
Called(trace, from) ==
  \E k \in from..Len(trace) : trace[k] # "skipped"

\* the batch handler, having run its loop from dish from to the point r: it
\* awaits the provider for dish r.loop.i, or it responds
BatchContinue(p, from, r) ==
  /\ cache' = r.cache
  /\ IF r.awaiting
     THEN /\ upstream < MaxUpstream
          /\ upstream' = upstream + 1
          /\ pc' = [pc EXCEPT ![p] = "batch"]
          /\ loop' = [loop EXCEPT ![p] = r.loop]
          /\ frame' = [frame EXCEPT ![p] =
                         Request(r.loop.dishes[r.loop.i].dish_name,
                                 r.loop.dishes[r.loop.i].servings)]
          /\ last' = IF Called(r.loop.trace, from) THEN NoOutcome ELSE last
          /\ flushed' = {}
     ELSE /\ upstream' = upstream
          /\ pc' = [pc EXCEPT ![p] = "idle"]
          /\ loop' = [loop EXCEPT ![p] = NoLoop]
          /\ frame' = [frame EXCEPT ![p] = NoFrame]
          /\ last' = BatchResponse(r.loop)
          /\ flushed' = IF Called(r.loop.trace, from) THEN {} ELSE flushed
  /\ now' = now

\* POST /api/batch-calories with body {dishes}
GetBatchCalories(p, dishes) ==
  /\ pc[p] = "idle"
  /\ IF BatchSizeError(dishes) # NoError
     THEN /\ last' = BatchRejected(dishes, BatchSizeError(dishes))
          /\ UNCHANGED <<cache, now, upstream, pc, frame, loop, flushed>>
     ELSE BatchContinue(p, 1,
            RunLoop(cache, Loop(dishes, 1, <<>>, <<>>, <<>>), now))

\* provider.searchFood settles for a caller awaiting it in the batch loop
SettleBatch(p, settled) ==
  /\ pc[p] = "batch"
  /\ BatchContinue(p, loop[p].i, ResumeLoop(cache, loop[p], settled, now))

\* DELETE /api/cache?pattern=...
ClearCache(pattern) ==
  LET r == clearCache(cache, pattern)
  IN /\ cache' = r.cache
     /\ last' = [kind |-> "cleared", cleared |-> r.cleared, all |-> r.all,
                 pattern |-> pattern,
                 removed |-> Cardinality(DOMAIN cache \ DOMAIN r.cache)]
     /\ flushed' = IF r.all THEN DOMAIN cache ELSE flushed
     /\ UNCHANGED <<now, upstream, pc, frame, loop>>

\* time passes
Tick ==
  /\ now + TickSeconds <= MaxTicks * TickSeconds
  /\ now' = now + TickSeconds
  /\ UNCHANGED <<cache, upstream, pc, frame, loop, last, flushed>>

\* the cache's check timer fires
CheckData ==
  /\ cache' = CacheCheckData(cache, now)
  /\ UNCHANGED <<now, upstream, pc, frame, loop, last, flushed>>

Next ==
  \/ \E p \in Callers : \E r \in RequestsOf(p) :
       Resolve(p, r.dishName, r.servings)
  \/ \E p \in Callers : \E settled \in Settlements(frame[p].dishName) :
       SettleResolve(p, settled)
  \/ \E p \in Callers : \E dishes \in BatchesOf(p) :
       GetBatchCalories(p, dishes)
  \/ \E p \in Callers : \E settled \in Settlements(frame[p].dishName) :
       SettleBatch(p, settled)
  \/ \E pattern \in Patterns : ClearCache(pattern)
  \/ Tick
  \/ CheckData

Spec == Init /\ [][Next]_vars

TypeOK ==
  /\ now \in 0..(MaxTicks * TickSeconds)
  /\ upstream \in 0..MaxUpstream
  /\ \A p \in Callers : pc[p] \in {"idle", "resolve", "batch"}
  /\ \A key \in DOMAIN cache : cache[key].t > 0

(***************************************************************************)
(* The functions of the service applied to inputs of their own, once, on   *)
(* the service as constructed: the application is recorded in last         *)
(***************************************************************************)
Macaroni ==
  <<"M","a","c","a","r","o","n","i"," ","a","n","d"," ","c","h","e","e","s","e">>

MacaroniAndCheese == Candidate(Macaroni, Some(350), Null, Some(95))

\* the three candidates of a search for pizza none of which is named Pizza
PizzaCheese ==
  Candidate(<<"P","i","z","z","a",","," ","c">>, Some(285), Null, Some(95))
PizzaPepperoni ==
  Candidate(<<"P","i","z","z","a",","," ","p">>, Some(310), Null, Some(90))
PizzaSupreme ==
  Candidate(<<"P","i","z","z","a",","," ","s">>, Some(320), Null, Some(88))

\* candidates whose energy nutrient carries a negative value upstream
PizzaNegative == Candidate(<<"P","i","z","z","a">>, Some(-5), Null, Some(60))
PieNegativeEnergy == Candidate(<<"P","i","e">>, Null, Some(-18), Some(50))

\* a candidate whose energy nutrient has the value 0.25: its calories are
\* extracted as Math.round(0.25) = 0
PizzaTrace == Candidate(<<"P","i","z","z","a">>, Some(0), Some(1), Some(40))

\* the candidates the lists below are made of
CandidatePool ==
  {PizzaExact, PizzaPie, PizzaEnergyOnly, PizzaBare, PizzaZero,
   PizzaNegative, PieNegativeEnergy, PizzaTrace}

\* the longest list made of the pool
MaxListLen == 3

\* every list of at most n candidates of the pool
ListsUpTo(n) ==
  UNION {[1..k -> CandidatePool] : k \in 0..n}

\* the lists _findBestMatch is applied to
MatchLists ==
  ListsUpTo(MaxListLen) \cup {<<PizzaCheese, PizzaPepperoni, PizzaSupreme>>}

\* the dish names it is applied with
MatchNames == {Pizza, <<"P","I","Z","Z","A">>, PizzaPadded}

\* every upstream failure: a response with a status, or none (status 0),
\* each with one of two upstream messages
AllFailures ==
  {Failure(status, detail) :
     status \in {0, 400, 401, 403, 404, 429, 499, 500, 503},
     detail \in {"bad request", "quota exhausted"}}

\* the getCalories calls that pass validation and await the provider
ResumedRequests ==
  {Request(d, s) : d \in {Pizza, PizzaPadded}, s \in {Num(1), Num(3), Num(2 * MaxServings)}}
  \cup {Request(toLowerCase(Macaroni), Num(4))}

\* what their searches settle with
ResumedSettlements ==
  {Found(list) : list \in ListsUpTo(MaxListLen - 1) \cup
                          {<<MacaroniAndCheese>>,
                           <<PizzaCheese, PizzaPepperoni, PizzaSupreme>>}}
  \cup {Failed(f) : f \in AllFailures}

\* the servings calculateCalories is applied with
CalculatedServings ==
  {Num(h) : h \in {-2, 0, 1, 3, 2 * MaxServings, 2 * MaxServings + 1}}
  \cup {NullServings, NaNServings}

\* USDAProvider._handleError applied to an upstream failure
ApplyProviderHandleError(failure) ==
  /\ last' = [kind |-> "providerError", failure |-> failure,
              message |-> ProviderHandleError(failure)]
  /\ UNCHANGED <<cache, now, upstream, pc, frame, loop, flushed>>

\* getCalories from the settling of its search on, on a service that has
\* cached nothing
ApplyGetCaloriesResume(dishName, servings, settled) ==
  /\ _validateInput(dishName, servings) = NoError
  /\ last' = [kind |-> "resumed", dishName |-> dishName,
              servings |-> servings, settled |-> settled,
              step |-> GetCaloriesResume(cache, dishName, servings, settled,
                                         now)]
  /\ UNCHANGED <<cache, now, upstream, pc, frame, loop, flushed>>

\* USDAProvider.calculateCalories applied to a candidate and servings
ApplyCalculateCalories(foodItem, servings) ==
  LET error == calculateCaloriesError(foodItem, servings)
  IN /\ last' = [kind |-> "calculated", foodItem |-> foodItem,
                 servings |-> servings, error |-> error,
                 result |-> IF error = NoError
                            THEN calculateCalories(foodItem, servings)
                            ELSE NoResult]
     /\ UNCHANGED <<cache, now, upstream, pc, frame, loop, flushed>>

\* FoodService._findBestMatch applied to a dish name and a list
ApplyFindBestMatch(dishName, list) ==
  /\ last' = [kind |-> "matched", dishName |-> dishName, list |-> list,
              best |-> _findBestMatch(dishName, list)]
  /\ UNCHANGED <<cache, now, upstream, pc, frame, loop, flushed>>

PureNext ==
  /\ last = NoOutcome
  /\ \/ \E failure \in AllFailures : ApplyProviderHandleError(failure)
     \/ \E r \in ResumedRequests : \E settled \in ResumedSettlements :
          ApplyGetCaloriesResume(r.dishName, r.servings, settled)
     \/ \E foodItem \in CandidatePool : \E servings \in CalculatedServings :
          ApplyCalculateCalories(foodItem, servings)
     \/ \E dishName \in MatchNames : \E list \in MatchLists :
          ApplyFindBestMatch(dishName, list)

PureSpec == Init /\ [][PureNext]_vars

(***************************************************************************)
(* FoodService.searchFood, getFoodDetails and getStatus                    *)
(***************************************************************************)
SearchPrefix == <<"s","e","a","r","c","h","_">>
FoodPrefix == <<"f","o","o","d","_">>

\* the options of a search: {} or {pageSize: n}
Options(pageSize) == [pageSize |-> pageSize]

\* JSON.stringify(options)
JSONstringify(options) ==
  IF options.pageSize.some
  THEN <<"{", "\"", "p","a","g","e","S","i","z","e", "\"", ":">>
         \o NatToString(options.pageSize.v) \o <<"}">>
  ELSE <<"{", "}">>

\* SearchCacheKey with the prefix of the calorie results
SearchCacheKeySharedPrefix(query, options) ==
  CaloriesPrefix \o toLowerCase(query) \o <<"_">> \o JSONstringify(options)

\* the cache key of searchFood: the query is lower-cased, not trimmed
SearchCacheKey(query, options) ==
  SearchPrefix \o toLowerCase(query) \o <<"_">> \o JSONstringify(options)

\* the cache key of getFoodDetails
FoodCacheKey(foodId) == FoodPrefix \o foodId

\* searchFood from entry to the await of provider.searchFood
SearchFoodEnter(c, query, options, t) ==
  LET cacheKey == SearchCacheKey(query, options)
  IN IF Len(query) = 0 \/ Len(trim(query)) < MinQueryLength
     THEN Step("throw",
               _handleError("Search query must be at least 2 characters long"),
               NoResult, c, FALSE, FALSE, FALSE)
     ELSE IF CacheHit(c, cacheKey, t)
     THEN Step("return", NoError, c[cacheKey].v, c, TRUE, FALSE, FALSE)
     ELSE Step("await", NoError, NoResult, CacheAfterGet(c, cacheKey, t),
               TRUE, FALSE, FALSE)

\* searchFood from the settling of provider.searchFood on
SearchFoodResume(c, query, options, settled, t) ==
  IF ~settled.ok
  THEN Step("throw", _handleError(ProviderHandleError(settled.failure)),
            NoResult, c, FALSE, FALSE, FALSE)
  ELSE Step("return", NoError, settled.list,
            CacheSet(c, SearchCacheKey(query, options), settled.list,
                     SearchTTL, t),
            FALSE, FALSE, TRUE)

\* what provider.getFoodDetails settles with
Details(foodId, calories) == [id |-> foodId, calories |-> calories]
FoundDetails(details) ==
  [ok |-> TRUE, details |-> details, failure |-> Failure(0, "")]
FailedDetails(failure) ==
  [ok |-> FALSE, details |-> Details(<<>>, Null), failure |-> failure]

\* getFoodDetails from entry to the await of provider.getFoodDetails
GetFoodDetailsEnter(c, foodId, t) ==
  LET cacheKey == FoodCacheKey(foodId)
  IN IF Len(foodId) = 0
     THEN Step("throw", _handleError("Food ID is required"), NoResult, c,
               FALSE, FALSE, FALSE)
     ELSE IF CacheHit(c, cacheKey, t)
     THEN Step("return", NoError, c[cacheKey].v, c, TRUE, FALSE, FALSE)
     ELSE Step("await", NoError, NoResult, CacheAfterGet(c, cacheKey, t),
               TRUE, FALSE, FALSE)

\* getFoodDetails from the settling of provider.getFoodDetails on
GetFoodDetailsResume(c, foodId, settled, t) ==
  IF ~settled.ok
  THEN Step("throw", _handleError(ProviderHandleError(settled.failure)),
            NoResult, c, FALSE, FALSE, FALSE)
  ELSE Step("return", NoError, settled.details,
            CacheSet(c, FoodCacheKey(foodId), settled.details, DetailsTTL, t),
            FALSE, FALSE, TRUE)

\* the outcome of a searchFood or getFoodDetails call, as CaloriesOutcome
LookupOutcome(kind, key, step, searched, t) ==
  [kind |-> kind, key |-> key, ok |-> step.kind = "return",
   error |-> step.error, result |-> step.result, searched |-> searched,
   hit |-> step.kind = "return" /\ searched = 0, wrote |-> step.wrote,
   at |-> t]

\* a caller invokes foodService.searchFood(query, options)
SearchFood(p, query, options) ==
  LET step == SearchFoodEnter(cache, query, options, now)
  IN /\ pc[p] = "idle"
     /\ cache' = step.cache
     /\ IF step.kind = "await"
        THEN /\ upstream < MaxUpstream
             /\ upstream' = upstream + 1
             /\ pc' = [pc EXCEPT ![p] = "search"]
             /\ frame' = [frame EXCEPT ![p] =
                            [query |-> query, options |-> options]]
             /\ last' = last
        ELSE /\ last' = LookupOutcome("search",
                          SearchCacheKey(query, options), step, 0, now)
             /\ UNCHANGED <<upstream, pc, frame>>
     /\ UNCHANGED <<now, loop, flushed>>

\* provider.searchFood settles for a caller awaiting it in searchFood
SettleSearchFood(p, settled) ==
  LET query == frame[p].query
      options == frame[p].options
      step == SearchFoodResume(cache, query, options, settled, now)
  IN /\ pc[p] = "search"
     /\ cache' = step.cache
     /\ pc' = [pc EXCEPT ![p] = "idle"]
     /\ frame' = [frame EXCEPT ![p] = NoFrame]
     /\ last' = LookupOutcome("search", SearchCacheKey(query, options),
                              step, 1, now)
     /\ UNCHANGED <<now, upstream, loop, flushed>>

\* a caller invokes foodService.getFoodDetails(foodId)
GetFoodDetails(p, foodId) ==
  LET step == GetFoodDetailsEnter(cache, foodId, now)
  IN /\ pc[p] = "idle"
     /\ cache' = step.cache
     /\ IF step.kind = "await"
        THEN /\ upstream < MaxUpstream
             /\ upstream' = upstream + 1
             /\ pc' = [pc EXCEPT ![p] = "details"]
             /\ frame' = [frame EXCEPT ![p] = [foodId |-> foodId]]
             /\ last' = last
        ELSE /\ last' = LookupOutcome("details", FoodCacheKey(foodId),
                                      step, 0, now)
             /\ UNCHANGED <<upstream, pc, frame>>
     /\ UNCHANGED <<now, loop, flushed>>

\* provider.getFoodDetails settles for a caller awaiting it
SettleGetFoodDetails(p, settled) ==
  LET foodId == frame[p].foodId
      step == GetFoodDetailsResume(cache, foodId, settled, now)
  IN /\ pc[p] = "details"
     /\ cache' = step.cache
     /\ pc' = [pc EXCEPT ![p] = "idle"]
     /\ frame' = [frame EXCEPT ![p] = NoFrame]
     /\ last' = LookupOutcome("details", FoodCacheKey(foodId), step, 1, now)
     /\ UNCHANGED <<now, upstream, loop, flushed>>

\* the status of the response to the probe of validateConnection, 0 when
\* none arrived; axios resolves for a status from 200 to 299 and rejects
\* otherwise
AxiosResolves(status) == status >= 200 /\ status < 300

\* validateConnection without the check of the API key
validateConnectionNoKeyCheck(apiKey, status) ==
  IF AxiosResolves(status) THEN status = 200
  ELSE FALSE

\* USDAProvider.validateConnection: every throw is caught and gives false
validateConnection(apiKey, status) ==
  IF ~apiKey THEN FALSE
  ELSE IF AxiosResolves(status) THEN status = 200
  ELSE FALSE

\* FoodService.getStatus: the record returned when nothing throws (neither
\* getProviderInfo nor validateConnection nor cache.keys does)
getStatus(isConnected, c, t) ==
  [kind |-> "status", service |-> "FoodService",
   status |-> IF isConnected THEN "healthy" ELSE "unhealthy",
   provider |-> ProviderName, keys |-> Cardinality(DOMAIN c),
   timestamp |-> t]

\* GET /health: getStatus with the probe settled; apiKey tells whether
\* USDA_API_KEY is configured
GetStatus(apiKey, status) ==
  /\ last' = getStatus(validateConnection(apiKey, status), cache, now)
          @@ [apiKey |-> apiKey, probe |-> status]
  /\ UNCHANGED <<cache, now, upstream, pc, frame, loop, flushed>>

\* the instants at which the service is observed: the start, and the end of
\* each lifetime and the second after it
Instants ==
  {0, SearchTTL, SearchTTL + 1, stdTTL, stdTTL + 1, DetailsTTL,
   DetailsTTL + 1}

\* time passes up to a later instant
Elapse(t) ==
  /\ t > now
  /\ now' = t
  /\ UNCHANGED <<cache, upstream, pc, frame, loop, last, flushed>>

\* the calls of the three lookups
LookupRequests == {Request(Pizza, Num(3))}
LookupQueries == {Pizza, <<"p">>}
LookupOptions == {Options(Some(10))}
LookupFoodIds == {<<"1","2","3">>, <<>>}
LookupSettlements ==
  {Found(<<PizzaPie, PizzaExact>>), Failed(Failure(429, "quota exhausted"))}
DetailsSettlements ==
  {FoundDetails(Details(<<"1","2","3">>, Some(285))),
   FailedDetails(Failure(0, "timeout of 10000ms exceeded"))}
ProbeStatuses == {0, 200, 204, 401, 500}

LookupNext ==
  \/ \E r \in LookupRequests : Resolve("c1", r.dishName, r.servings)
  \/ \E settled \in LookupSettlements : SettleResolve("c1", settled)
  \/ \E query \in LookupQueries : \E options \in LookupOptions :
       SearchFood("c1", query, options)
  \/ \E settled \in LookupSettlements : SettleSearchFood("c1", settled)
  \/ \E foodId \in LookupFoodIds : GetFoodDetails("c1", foodId)
  \/ \E settled \in DetailsSettlements : SettleGetFoodDetails("c1", settled)
  \/ \E apiKey \in BOOLEAN : \E status \in ProbeStatuses :
       GetStatus(apiKey, status)
  \/ \E t \in Instants : Elapse(t)
  \/ CheckData

LookupSpec == Init /\ [][LookupNext]_vars

(***************************************************************************)
(* calorieController.getCalories: POST /api/get-calories                   *)
(***************************************************************************)
\* req.user: absent for an anonymous request
NoUser ==
  [authenticated |-> FALSE, _id |-> "", firstName |-> <<>>, lastName |-> <<>>]
User(id, firstName, lastName) ==
  [authenticated |-> TRUE, _id |-> id, firstName |-> firstName,
   lastName |-> lastName]

\* `${req.user.firstName} ${req.user.lastName}`
UserName(user) == user.firstName \o <<" ">> \o user.lastName

\* the result after the controller has assigned the user context to it
AttachUser(result, user) ==
  IF user.authenticated
  THEN [userId |-> user._id, userName |-> UserName(user)] @@ result
  ELSE result

\* a cache that stores and returns the caller's object itself: an
\* assignment to the returned object alters the entry
CacheAfterCallerMutationShared(c, key, mutated) ==
  IF key \in DOMAIN c THEN [c EXCEPT ![key].v = mutated] ELSE c

\* the cache after the caller has assigned to the object getCalories
\* returned: the cache is constructed without useClones: false, so it stores
\* a copy of what cache.set is given and cache.get returns a copy of what it
\* stores, and the assignment reaches neither
CacheAfterCallerMutation(c, key, mutated) == c

\* the arguments and the user of a request awaiting getCalories
EndpointFrame(dishName, servings, user) ==
  [dishName |-> dishName, servings |-> servings, user |-> user]

\* what the endpoint answers: the 200 response with the result as data, or
\* the error handed to the error handler, with the getCalories call behind it
Response(user, dishName, servings, step, searched, data, t) ==
  [kind |-> "response", user |-> user, dishName |-> dishName,
   servings |-> servings, ok |-> step.kind = "return",
   error |-> step.error, data |-> data, searched |-> searched,
   hit |-> step.kind = "return" /\ searched = 0, at |-> t]

NoResponses == [p \in Callers |-> NoOutcome]

\* the response each caller received last, after p has received response
Responses(p, response) ==
  [kind |-> "responses",
   of |-> [IF last.kind = "responses" THEN last.of ELSE NoResponses
             EXCEPT ![p] = response]]

\* the handler from the settling or the synchronous end of getCalories on
EndpointRespond(p, user, dishName, servings, step, searched) ==
  LET data == IF step.kind = "return"
              THEN AttachUser(step.result, user)
              ELSE NoResult
  IN /\ cache' = IF step.kind = "return"
                 THEN CacheAfterCallerMutation(step.cache,
                        _generateCacheKey(dishName, servings), data)
                 ELSE step.cache
     /\ last' = Responses(p, Response(user, dishName, servings, step,
                                      searched, data, now))

\* POST /api/get-calories with body {dish_name, servings}, by user
PostGetCalories(p, user, dishName, servings) ==
  LET step == GetCaloriesEnter(cache, dishName, servings, now)
  IN /\ pc[p] = "idle"
     /\ IF step.kind = "await"
        THEN /\ upstream < MaxUpstream
             /\ upstream' = upstream + 1
             /\ cache' = step.cache
             /\ pc' = [pc EXCEPT ![p] = "endpoint"]
             /\ frame' = [frame EXCEPT ![p] =
                            EndpointFrame(dishName, servings, user)]
             /\ last' = last
        ELSE /\ EndpointRespond(p, user, dishName, servings, step, 0)
             /\ UNCHANGED <<upstream, pc, frame>>
     /\ UNCHANGED <<now, loop, flushed>>

\* provider.searchFood settles for a request awaiting getCalories
SettlePostGetCalories(p, settled) ==
  LET dishName == frame[p].dishName
      servings == frame[p].servings
      step == GetCaloriesResume(cache, dishName, servings, settled, now)
  IN /\ pc[p] = "endpoint"
     /\ EndpointRespond(p, frame[p].user, dishName, servings, step, 1)
     /\ pc' = [pc EXCEPT ![p] = "idle"]
     /\ frame' = [frame EXCEPT ![p] = NoFrame]
     /\ UNCHANGED <<now, upstream, loop, flushed>>

\* the users and the requests of the endpoint
Ann == User("u1", <<"A","n","n">>, <<"L","e","e">>)
Bob == User("u2", <<"B","o","b">>, <<"R","a","y">>)
UsersOf(p) == IF p = "c1" THEN {Ann, NoUser} ELSE {Bob, NoUser}
EndpointRequests ==
  {Request(Pizza, Num(3)), Request(PizzaPadded, Num(3)),
   Request(Pizza, Num(0))}
EndpointSettlements ==
  {Found(<<PizzaPie, PizzaExact>>), Found(<<PizzaEnergyOnly>>),
   Failed(Failure(429, "too many requests"))}

EndpointNext ==
  \/ \E p \in Callers : \E user \in UsersOf(p) :
       \E r \in EndpointRequests :
         PostGetCalories(p, user, r.dishName, r.servings)
  \/ \E p \in Callers : \E settled \in EndpointSettlements :
       SettlePostGetCalories(p, settled)
  \/ Tick
  \/ CheckData

EndpointSpec == Init /\ [][EndpointNext]_vars

(***************************************************************************)
(* Properties                                                              *)
(***************************************************************************)
\* servings in (0, 50]
AcceptableServings(s) ==
  s.t = "number" /\ s.h > 0 /\ s.h <= 2 * MaxServings

\* servings <= 0, > 50, null or NaN
UnacceptableServings(s) ==
  \/ s.t \in {"null", "NaN"}
  \/ s.t = "number" /\ (s.h <= 0 \/ s.h > 2 * MaxServings)

ServingsErrors ==
  {"Servings must be a positive number", "Maximum 50 servings allowed"}

NameErrors ==
  {"Dish name is required and must be a non-empty string",
   "Dish name too long (maximum 200 characters)"}

NotFoundErrors ==
  {"Sorry, we could not find that dish in our database",
   "Dish not found or calorie information unavailable"}

\* p starts getCalories for r, the request that finished last was a
\* getCalories call for the same dish name and servings, no more than the
\* TTL ago, and nothing was flushed since (a clearCache replaces last)
SecondCall(p, r) ==
  /\ last.kind = "calories"
  /\ last.dishName = r.dishName
  /\ last.servings = r.servings
  /\ now <= last.at + stdTTL
  /\ Resolve(p, r.dishName, r.servings)

ServingsRejected(o) ==
  /\ ~o.ok
  /\ o.error \in ServingsErrors
  /\ o.searched = 0
  /\ ~o.read
  /\ ~o.wrote

\* C2, as stated: for unacceptable servings and any non-empty dish name
\* getCalories fails with one of the two servings messages, without a
\* provider call and without reading or writing the cache
C2_Original ==
  (last.kind = "calories" /\ Len(last.dishName) > 0
     /\ UnacceptableServings(last.servings))
  => ServingsRejected(last)

\* C2, amended: the same for any dish name that is non-empty after trimming;
\* the call leaves the cache, the count of provider calls and every handler
\* as they were
C2_ServingsRejected ==
  /\ [](  (last.kind = "calories" /\ Len(trim(last.dishName)) > 0
             /\ UnacceptableServings(last.servings))
          => ServingsRejected(last))
  /\ [][\A p \in Callers : \A r \in RequestsOf(p) :
          (UnacceptableServings(r.servings)
             /\ Len(trim(r.dishName)) > 0
             /\ Resolve(p, r.dishName, r.servings))
          => /\ cache' = cache
             /\ upstream' = upstream
             /\ pc' = pc
             /\ last'.kind = "calories"
             /\ last'.servings = r.servings]_vars

\* a name longer than the maximum with servings 0 got the servings message,
\* while the cache held an entry
C2_Witness ==
  /\ last.kind = "calories"
  /\ Len(last.dishName) > MaxDishNameLength
  /\ last.servings = Num(0)
  /\ last.error = "Servings must be a positive number"
  /\ cache # EmptyCache

\* total_calories is the integer nearest to calories_per_serving * servings,
\* the upper one of two equally near
RoundedProduct(r) ==
  LET twice == r.calories_per_serving * r.servings.h
  IN /\ 2 * r.total_calories <= twice + 1
     /\ twice + 1 < 2 * r.total_calories + 2

\* the candidate the match selector returns, as it returns it
Chosen(dishName, list) ==
  LET best == _findBestMatch(dishName, list) IN best.list[best.index]

\* C3: every result getCalories returns (to a caller, into a batch, into the
\* cache) has total_calories = round(calories_per_serving * servings) with
\* the servings of the call, and a computed result has the calorie value of
\* the candidate the match selector chose
C3_TotalIsRoundedProduct ==
  /\ [](/\ (last.kind = "calories" /\ last.ok) =>
             /\ RoundedProduct(last.result)
             /\ last.result.servings = last.servings
             /\ AcceptableServings(last.servings)
        /\ last.kind = "batch" =>
             \A k \in 1..Len(last.results) : RoundedProduct(last.results[k])
        /\ \A key \in DOMAIN cache : RoundedProduct(cache[key].v))
  /\ [][\A p \in Callers : \A settled \in Settlements(frame[p].dishName) :
          (SettleResolve(p, settled) /\ last'.ok) =>
             last'.result.calories_per_serving =
               Chosen(frame[p].dishName, settled.list).calories.v]_vars

\* 101 calories and 1.5 servings gave 152 (151.5 rounded upwards)
C3_Witness ==
  /\ last.kind = "calories"
  /\ last.ok
  /\ last.servings = Num(3)
  /\ last.result.calories_per_serving = 101
  /\ last.result.total_calories = 152

C5_BatchRejected ==
  [][\A p \in Callers : \A dishes \in BatchesOf(p) :
       ((Len(dishes) = 0 \/ Len(dishes) > MaxBatchSize)
          /\ GetBatchCalories(p, dishes))
       => /\ last'.kind = "rejected"
          /\ last'.status = 400
          /\ last'.error # NoError
          /\ last'.dishes = dishes
          /\ cache' = cache
          /\ upstream' = upstream
          /\ pc' = pc
          /\ loop' = loop]_vars

\* a batch of 11 dishes was rejected while the cache held an entry
C5_Witness ==
  /\ last.kind = "rejected"
  /\ Len(last.dishes) = MaxBatchSize + 1
  /\ cache # EmptyCache

\* the positions of a batch response whose dish failed
FailedPositions(o) == {i \in 1..Len(o.trace) : o.trace[i] # "returned"}

\* the position of the k-th failed dish
FailedPosition(o, k) ==
  CHOOSE i \in FailedPositions(o) :
    Cardinality({j \in FailedPositions(o) : j <= i}) = k

\* C6, as stated: a failing dish does not end the batch, it is recorded in
\* errors with its message, and getCalories is called for every dish after it
C6_Original ==
  last.kind = "batch" =>
    /\ Len(last.trace) = Len(last.dishes)
    /\ \A i \in FailedPositions(last) : \A j \in (i + 1)..Len(last.dishes) :
         last.trace[j] \in {"threw", "returned"}

\* C6, amended: a failing dish does not end the batch and is recorded in
\* errors with its message; every dish after it is processed: getCalories is
\* called for it unless its dish_name or servings is missing, and then it is
\* recorded in errors as such without a getCalories call
C6_FailureIsolated ==
  last.kind = "batch" =>
    /\ Len(last.trace) = Len(last.dishes)
    /\ \A j \in 1..Len(last.dishes) :
         last.trace[j] = "skipped" <=> MissingField(last.dishes[j])
    /\ Len(last.errors) = Cardinality(FailedPositions(last))
    /\ \A k \in 1..Len(last.errors) :
         LET i == FailedPosition(last, k)
         IN /\ last.errors[k].dish = last.dishes[i]
            /\ last.errors[k].error # NoError
            /\ last.trace[i] = "skipped" <=>
                 last.errors[k].error = "dish_name and servings are required"

\* the first dish failed at the provider, the second failed validation, the
\* third lacked a field and the fourth was resolved
C6_Witness ==
  /\ last.kind = "batch"
  /\ last.trace = <<"threw", "threw", "skipped", "returned">>
  /\ last.errors[2].error = "Maximum 50 servings allowed"

\* C7: when the search list is empty, or the candidate the match selector
\* chose has no calorie value, getCalories fails with a not-found message,
\* calculateCalories is not invoked and the cache is left as it was
C7_NotFound ==
  [][\A p \in Callers : \A settled \in Settlements(frame[p].dishName) :
       (/\ pc[p] = "resolve"
        /\ settled.ok
        /\ \/ Len(settled.list) = 0
           \/ ~Chosen(frame[p].dishName, settled.list).calories.some
        /\ SettleResolve(p, settled))
       => /\ last'.kind = "calories"
          /\ ~last'.ok
          /\ last'.error \in NotFoundErrors
          /\ (Len(settled.list) = 0 =>
                last'.error = "Sorry, we could not find that dish in our database")
          /\ ~last'.calc
          /\ ~last'.wrote
          /\ cache' = cache]_vars

\* a search found candidates but the chosen one had no calorie value
C7_Witness ==
  /\ last.kind = "calories"
  /\ last.searched = 1
  /\ last.error = "Dish not found or calorie information unavailable"
  /\ ~last.calc

\* pattern occurs in key
Occurs(pattern, key) ==
  \E offset \in 0..(Len(key) - Len(pattern)) :
    \A j \in 1..Len(pattern) : key[offset + j] = pattern[j]

\* C8: clearCache with a non-empty pattern deletes exactly the keys in which
\* the pattern occurs, returns their number, and leaves every other key with
\* its entry
C8_ClearByPattern ==
  [][\A pattern \in Patterns :
       (pattern.given /\ Len(pattern.text) > 0 /\ ClearCache(pattern))
       => /\ DOMAIN cache' =
               {key \in DOMAIN cache : ~Occurs(pattern.text, key)}
          /\ \A key \in DOMAIN cache' : cache'[key] = cache[key]
          /\ ~last'.all
          /\ last'.cleared = Cardinality(DOMAIN cache \ DOMAIN cache')]_vars

\* a pattern cleared one of two entries
C8_Witness ==
  /\ last.kind = "cleared"
  /\ ~last.all
  /\ last.pattern.text = <<"_","1",".","5">>
  /\ last.cleared = 1
  /\ Cardinality(DOMAIN cache) = 1

\* p starts a valid getCalories for a key the last flushAll removed, and no
\* getCalories call has started since
FirstCallAfterFlush(p, r) ==
  /\ flushed # {}
  /\ _validateInput(r.dishName, r.servings) = NoError
  /\ _generateCacheKey(r.dishName, r.servings) \in flushed
  /\ Resolve(p, r.dishName, r.servings)

\* clearCache without a pattern empties the cache and returns cleared: 'all'
FlushesAll ==
  \A pattern \in Patterns :
    (~pattern.given /\ ClearCache(pattern)) =>
       cache' = EmptyCache /\ last'.kind = "cleared" /\ last'.all

\* C9, as stated: clearCache without a pattern removes every entry and
\* returns cleared: 'all', and the next getCalories for a dish and servings
\* that were cached is a miss that issues a search
C9_Original ==
  [][/\ FlushesAll
     /\ \A p \in Callers : \A r \in RequestsOf(p) :
          FirstCallAfterFlush(p, r) =>
             upstream' = upstream + 1 /\ pc'[p] = "resolve"]_vars

\* C9, amended: the same, provided no getCalories call that was awaiting the
\* provider when the cache was cleared has finished in between
C9_MissAfterFlush ==
  [][/\ FlushesAll
     /\ \A p \in Callers : \A r \in RequestsOf(p) :
          (FirstCallAfterFlush(p, r) /\ last.kind = "cleared") =>
             upstream' = upstream + 1 /\ pc'[p] = "resolve"]_vars

\* a clearCache without a pattern removed an entry, and the one getCalories
\* call started since awaits the provider for the second search of the
\* behaviour
C9_Witness ==
  /\ last.kind = "cleared"
  /\ last.all
  /\ last.pattern = NoPattern
  /\ last.removed = 1
  /\ cache = EmptyCache
  /\ flushed = {}
  /\ upstream = 2
  /\ \E p \in Callers : pc[p] = "resolve" /\ \A q \in Callers \ {p} : pc[q] = "idle"

\* C10, as stated: with acceptable servings getCalories fails validation on
\* the dish name exactly when the trimmed name is empty or longer than 200
\* characters, with the message of that reason
C10_Original ==
  (last.kind = "calories" /\ AcceptableServings(last.servings)) =>
    LET trimmed == trim(last.dishName)
    IN /\ last.error \in NameErrors <=>
            (Len(trimmed) = 0 \/ Len(trimmed) > MaxDishNameLength)
       /\ Len(trimmed) = 0 =>
            last.error = "Dish name is required and must be a non-empty string"
       /\ Len(trimmed) > MaxDishNameLength =>
            last.error = "Dish name too long (maximum 200 characters)"

\* C11, as stated: every result getCalories returns, and every calorie result
\* it puts in the cache, has a non-negative total_calories and servings in
\* (0, 50], whatever candidate list the search settled with
C11_Original ==
  (last.kind = "resumed" /\ last.step.kind = "return") =>
    /\ last.step.result.total_calories >= 0
    /\ AcceptableServings(last.step.result.servings)
    /\ \A key \in DOMAIN last.step.cache :
         /\ last.step.cache[key].v.total_calories >= 0
         /\ AcceptableServings(last.step.cache[key].v.servings)

\* C12: a result getCalories computes carries searchResults = the number of
\* candidates of the search list and matchScore = the score of the candidate
\* the match selector chose, and is named after that candidate; one candidate
\* 'Macaroni and cheese' with 350 calories and 2 servings gives
\* calories_per_serving 350, total_calories 700, searchResults 1
C12_ResultAnnotated ==
  (last.kind = "resumed" /\ last.step.kind = "return") =>
    LET result == last.step.result
        list == last.settled.list
        selected == Chosen(last.dishName, list)
    IN /\ result.searchResults = Len(list)
       /\ result.matchScore = selected.score
       /\ result.dish_name = selected.description
       /\ (list = <<MacaroniAndCheese>> /\ last.servings = Num(4)) =>
            /\ result.calories_per_serving = 350
            /\ result.total_calories = 700
            /\ result.searchResults = 1
            /\ result.matchScore = Some(95)

\* of two candidates the second, named as the dish, was chosen: the result
\* counts two candidates and carries the score of the second
C12_Witness ==
  /\ last.kind = "resumed"
  /\ last.step.kind = "return"
  /\ last.settled.list = <<PizzaPie, PizzaExact>>
  /\ last.step.result.searchResults = 2
  /\ last.step.result.matchScore = Some(95)

\* key starts with prefix
HasPrefix(key, prefix) ==
  Len(key) >= Len(prefix) /\ SubSeq(key, 1, Len(prefix)) = prefix

\* the lifetime of the entries of each kind: calorie results 1 hour, search
\* lists 15 minutes, food details 24 hours
LifetimeOfKey(key) ==
  IF HasPrefix(key, CaloriesPrefix) THEN 3600
  ELSE IF HasPrefix(key, SearchPrefix) THEN 900
  ELSE 86400

\* a step in which a call that awaited the provider finishes
SomeCallSettles == \E p \in Callers : pc[p] # "idle" /\ pc'[p] = "idle"

\* an entry is written only by a call that missed, with its expiry instant
\* one lifetime after the write, and is never changed afterwards
WrittenOnce ==
  \A key \in DOMAIN cache' :
    \/ key \in DOMAIN cache /\ cache'[key] = cache[key]
    \/ /\ SomeCallSettles
       /\ cache'[key].t = now + LifetimeOfKey(key)

\* a call of caller p that looks key up: it returns from the cache only an
\* entry whose lifetime has not elapsed, and leaves that entry as it is; when
\* the lifetime has elapsed (or there is no entry) it asks the provider
ServedWithinLifetime(p, key) ==
  /\ pc'[p] = "idle" =>
       /\ key \in DOMAIN cache
       /\ now <= cache[key].t
       /\ cache' = cache
       /\ last'.hit
       /\ last'.result = cache[key].v
  /\ (key \notin DOMAIN cache \/ now > cache[key].t) =>
       /\ pc'[p] # "idle"
       /\ upstream' = upstream + 1
       /\ key \notin DOMAIN cache'

\* C13: an entry of the cache is served only within its lifetime counted from
\* the moment it was written (calorie results 1 hour, search lists 15
\* minutes, food details 24 hours): a hit leaves the expiry instant as it is,
\* and once the lifetime has elapsed the next call for the key is a miss,
\* however many hits came before
C13_ExpiresByLifetime ==
  [][/\ WrittenOnce
     /\ \A r \in LookupRequests :
          Resolve("c1", r.dishName, r.servings) =>
            ServedWithinLifetime("c1",
              _generateCacheKey(r.dishName, r.servings))
     /\ \A query \in LookupQueries : \A options \in LookupOptions :
          (Len(trim(query)) >= MinQueryLength
             /\ SearchFood("c1", query, options)) =>
            ServedWithinLifetime("c1", SearchCacheKey(query, options))
     /\ \A foodId \in LookupFoodIds :
          (Len(foodId) > 0 /\ GetFoodDetails("c1", foodId)) =>
            ServedWithinLifetime("c1", FoodCacheKey(foodId))]_vars

\* food details written at the start were served from the cache 24 hours
\* later, and a second after that the next call asks the provider again
C13_Witness ==
  /\ last.kind = "details"
  /\ last.hit
  /\ last.at = DetailsTTL
  /\ now = DetailsTTL + 1
  /\ pc["c1"] = "details"
  /\ upstream = 2
  /\ cache = EmptyCache

\* the dish name trimmed and lower-cased
Normalized(dishName) == toLowerCase(trim(dishName))

\* two calls name the same dish and the same servings
SameDish(r1, r2) ==
  /\ Normalized(r1.dishName) = Normalized(r2.dishName)
  /\ r1.servings = r2.servings

\* the calls that pass validation
ValidRequests ==
  {r \in Requests : _validateInput(r.dishName, r.servings) = NoError}

\* what every step Resolve(p, r.dishName, r.servings) does, whatever the
\* cache holds: p was idle, and now awaits the provider for r or has the
\* outcome of r
ResolveStep(p, r) ==
  /\ pc[p] = "idle"
  /\ now' = now
  /\ \/ pc'[p] = "resolve" /\ frame'[p] = r
     \/ /\ pc' = pc
        /\ last'.kind = "calories"
        /\ last'.dishName = r.dishName
        /\ last'.servings = r.servings

\* C14: the cache key of getCalories is the trimmed, lower-cased dish name
\* combined with the servings. Two calls whose normalized names and servings
\* are equal use the same entry: the second returns the result the first
\* cached, unchanged. Two calls that differ in normalized name or in servings
\* have different keys, a call is served from the entry of its own key only,
\* and a call writes the entry of its own key only
C14_KeyIsNormalizedNameAndServings ==
  [][/\ \A p \in Callers : \A r \in RequestsOf(p) :
          (/\ ResolveStep(p, r)
           /\ _validateInput(r.dishName, r.servings) = NoError
           /\ Resolve(p, r.dishName, r.servings)) =>
            LET key == _generateCacheKey(r.dishName, r.servings)
            IN /\ \A r2 \in ValidRequests :
                    SameDish(r, r2) <=>
                      key = _generateCacheKey(r2.dishName, r2.servings)
               /\ IF CacheHit(cache, key, now)
                  THEN /\ last'.kind = "calories"
                       /\ last'.hit
                       /\ last'.result = cache[key].v
                  ELSE pc'[p] = "resolve"
               /\ (/\ last.kind = "calories"
                   /\ last.wrote
                   /\ SameDish(r, [dishName |-> last.dishName,
                                   servings |-> last.servings])
                   /\ now <= last.at + stdTTL) =>
                     last'.hit /\ last'.result = last.result
     /\ \A p \in Callers : \A settled \in Settlements(frame[p].dishName) :
          SettleResolve(p, settled) =>
            \A key \in (DOMAIN cache \cup DOMAIN cache')
                         \ {_generateCacheKey(frame[p].dishName,
                                              frame[p].servings)} :
              /\ key \in DOMAIN cache
              /\ key \in DOMAIN cache'
              /\ cache'[key] = cache[key]]_vars

\* a call for ' Pizza' was served the result a call for 'pizza' had cached
\* (285 calories, of the candidate named as that call's dish), while the
\* cache also held the entry of another servings value
C14_Witness ==
  /\ last.kind = "calories"
  /\ last.hit
  /\ last.dishName = PizzaPadded
  /\ last.result.calories_per_serving = 285
  /\ Cardinality(DOMAIN cache) = 2

\* the sub-kind of a provider failure, by the status of the upstream
\* response (0: no response arrived)
SubKind(status) ==
  CASE status = 401 -> "Unauthorized"
    [] status = 403 -> "Forbidden"
    [] status = 429 -> "RateLimited"
    [] status >= 500 -> "Unavailable"
    [] status = 0 -> "Unavailable"
    [] OTHER -> "Unknown"

\* the sub-kind a message of the provider stands for
SubKindOfMessage(message) ==
  CASE message = "Invalid USDA API key" -> "Unauthorized"
    [] message = "USDA API access denied" -> "Forbidden"
    [] message = "USDA API rate limit exceeded" -> "RateLimited"
    [] message = "USDA API service unavailable" -> "Unavailable"
    [] OTHER -> "Unknown"

\* C15: a provider failure is classified by the upstream status: 401
\* Unauthorized, 403 Forbidden, 429 RateLimited, 500 and above Unavailable,
\* any other status Unknown, and no response at all (network failure,
\* timeout) Unavailable
C15_ClassifiedByStatus ==
  last.kind = "providerError" =>
    SubKindOfMessage(last.message) = SubKind(last.failure.status)

\* a failure without a response was classified Unavailable
C15_Witness ==
  /\ last.kind = "providerError"
  /\ last.failure.status = 0
  /\ last.message = "USDA API service unavailable"

\* a search of getCalories failed at the provider, or found nothing usable
ProviderFailed(o) == o.kind = "resumed" /\ ~o.settled.ok
NothingFound(o) ==
  /\ o.kind = "resumed"
  /\ o.settled.ok
  /\ \/ Len(o.settled.list) = 0
     \/ ~Truthy(Chosen(o.dishName, o.settled.list).calories)

\* C16, as stated: the message getCalories surfaces for a provider failure
\* depends on the sub-kind only, not on the upstream error detail (any other
\* failure of the same sub-kind surfaces the same message), and a not-found
\* outcome is surfaced as a not-found message
C16_Original ==
  /\ ProviderFailed(last) =>
       \A f \in AllFailures :
         SubKind(f.status) = SubKind(last.settled.failure.status) =>
           GetCaloriesResume(cache, last.dishName, last.servings,
                             Failed(f), now).error = last.step.error
  /\ NothingFound(last) => last.step.error \in NotFoundErrors

\* C16, amended: Unauthorized, RateLimited and Unavailable are surfaced as
\* the service's own messages and Forbidden as the provider's fixed message,
\* none depending on the upstream detail; Unknown is surfaced as 'USDA API
\* error: ' followed by the upstream detail; an empty search list is surfaced
\* as the service's not-found message and a chosen candidate without calorie
\* value as 'Dish not found or calorie information unavailable'
C16_SurfacedMessages ==
  /\ ProviderFailed(last) =>
       LET kind == SubKind(last.settled.failure.status)
           error == last.step.error
       IN /\ last.step.kind = "throw"
          /\ kind = "Unauthorized" =>
               error = "Food database service configuration error"
          /\ kind = "Forbidden" => error = "USDA API access denied"
          /\ kind = "RateLimited" =>
               error = "Service temporarily busy, please try again in a few minutes"
          /\ kind = "Unavailable" =>
               error = "Food database service is temporarily unavailable"
          /\ kind = "Unknown" =>
               error = "USDA API error: " \o last.settled.failure.detail
  /\ NothingFound(last) =>
       /\ last.step.kind = "throw"
       /\ last.step.error =
            IF Len(last.settled.list) = 0
            THEN "Sorry, we could not find that dish in our database"
            ELSE "Dish not found or calorie information unavailable"

\* an upstream response with status 404 surfaced with its upstream detail
C16_Witness ==
  /\ ProviderFailed(last)
  /\ last.settled.failure.status = 404
  /\ last.step.error = "USDA API error: quota exhausted"

\* C17: the health check never fails. validateConnection gives false on
\* every failure (no API key, no response, a response with an error status),
\* and getStatus returns a record whose status is 'healthy' exactly when
\* validateConnection gave true (a key is configured and the probe was
\* answered with status 200) and 'unhealthy' otherwise
C17_HealthCheckNeverFails ==
  last.kind = "status" =>
    /\ last.service = "FoodService"
    /\ last.status \in {"healthy", "unhealthy"}
    /\ last.status = "healthy" <=> (last.apiKey /\ last.probe = 200)
    /\ last.status = "healthy" <=>
         validateConnection(last.apiKey, last.probe)

\* without an API key the status was 'unhealthy' although the upstream would
\* have answered 200, while the cache held two entries
C17_Witness ==
  /\ last.kind = "status"
  /\ ~last.apiKey
  /\ last.probe = 200
  /\ last.status = "unhealthy"
  /\ last.keys = 2

\* C18, as stated: calculateCalories fails, returning no result, whenever the
\* candidate has no resolved calorie value or servings <= 0, and succeeds for
\* every candidate with a resolved calorie value and servings > 0
C18_Original ==
  last.kind = "calculated" =>
    /\ (\/ ~last.foodItem.calories.some
        \/ last.servings.t = "number" /\ last.servings.h <= 0) =>
         /\ last.error # NoError
         /\ last.result = NoResult
    /\ (/\ last.foodItem.calories.some
        /\ last.servings.t = "number" /\ last.servings.h > 0) =>
         /\ last.error = NoError
         /\ last.result # NoResult

\* the description of the candidate equals the dish name, letter case apart
ExactDescription(dishName, item) ==
  toLowerCase(item.description) = toLowerCase(dishName)

\* C19, as stated: whenever the list holds a candidate whose description
\* equals the dish name case-insensitively and which has a calorie value (here
\* even a non-zero one), _findBestMatch returns a candidate with such a
\* description, whatever precedes or follows it
C19_Original ==
  last.kind = "matched" =>
    ((\E i \in 1..Len(last.list) :
        /\ ExactDescription(last.dishName, last.list[i])
        /\ Truthy(last.list[i].calories))
     => /\ last.best.index # 0
        /\ ExactDescription(last.dishName, last.list[last.best.index]))

\* the candidate has a calorie value greater than 0
PositiveCalories(item) == item.calories.some /\ item.calories.v > 0

\* C20: when the list holds no candidate with the dish's description and a
\* (non-zero) calorie value, _findBestMatch returns the first candidate of
\* the list whose calorie value is greater than 0, and leaves the list as it
\* is; of the three candidates 'Pizza, ...' with 285, 310 and 320 calories
\* the first is returned
C20_FirstWithCalories ==
  last.kind = "matched" =>
    /\ (/\ ~\E i \in 1..Len(last.list) :
              /\ ExactDescription(last.dishName, last.list[i])
              /\ Truthy(last.list[i].calories)
        /\ \E i \in 1..Len(last.list) : PositiveCalories(last.list[i]))
       => /\ last.best.index \in 1..Len(last.list)
          /\ PositiveCalories(last.list[last.best.index])
          /\ \A j \in 1..(last.best.index - 1) :
               ~PositiveCalories(last.list[j])
          /\ last.best.list = last.list
    /\ last.list = <<PizzaCheese, PizzaPepperoni, PizzaSupreme>> =>
         /\ last.best.index = 1
         /\ last.best.list[1].calories = Some(285)

\* after a candidate named as the dish with 0 calories and one without a
\* calorie value, the third candidate, the first with calories, was returned
C20_Witness ==
  /\ last.kind = "matched"
  /\ last.dishName = Pizza
  /\ last.list = <<PizzaZero, PizzaBare, PizzaPie>>
  /\ last.best.index = 3

\* the candidate has an energy nutrient with a value greater than 0
PositiveEnergy(item) == item.energy.some /\ item.energy.v > 0

\* c is the integer nearest to the number q/4, the upper one of two equally
\* near
RoundedQuarters(c, q) == 4 * c <= q + 2 /\ q + 2 < 4 * c + 4

\* C21, as stated: when rules 1 and 2 yield nothing (here: no candidate has
\* the dish's description and a calorie value, and no candidate has a calorie
\* value greater than 0) and some candidate has an energy nutrient with a
\* value greater than 0, getCalories succeeds with the first such candidate
\* and calories_per_serving equal to that value rounded
C21_Original ==
  (/\ last.kind = "resumed"
   /\ last.settled.ok
   /\ ~\E i \in 1..Len(last.settled.list) :
         /\ ExactDescription(last.dishName, last.settled.list[i])
         /\ last.settled.list[i].calories.some
   /\ ~\E i \in 1..Len(last.settled.list) :
         PositiveCalories(last.settled.list[i])
   /\ \E i \in 1..Len(last.settled.list) :
         PositiveEnergy(last.settled.list[i]))
  => LET list == last.settled.list
         first == CHOOSE i \in 1..Len(list) :
                    /\ PositiveEnergy(list[i])
                    /\ \A j \in 1..(i - 1) : ~PositiveEnergy(list[j])
     IN /\ last.step.kind = "return"
        /\ last.step.result.dish_name = list[first].description
        /\ RoundedQuarters(last.step.result.calories_per_serving,
                           list[first].energy.v)

\* C22, as stated: when none of rules 1-3 yields a candidate (no candidate
\* has the dish's description and a calorie value, none has a calorie value
\* greater than 0, none has an energy value greater than 0), _findBestMatch
\* returns the first candidate of the list and getCalories rejects it with a
\* not-found message, returning and caching nothing
C22_Original ==
  (/\ last.kind = "resumed"
   /\ last.settled.ok
   /\ Len(last.settled.list) > 0
   /\ \A i \in 1..Len(last.settled.list) :
        LET item == last.settled.list[i]
        IN /\ ~(ExactDescription(last.dishName, item) /\ item.calories.some)
           /\ ~PositiveCalories(item)
           /\ ~PositiveEnergy(item))
  => /\ _findBestMatch(last.dishName, last.settled.list).index = 1
     /\ last.step.kind = "throw"
     /\ last.step.error \in NotFoundErrors
     /\ last.step.result = NoResult
     /\ last.step.cache = cache

\* C23: match selection is deterministic: _findBestMatch is a function of
\* the dish name and the list, and applied a second time to the list as its
\* first application left it (with the calorie value rules 3 and 4 attach)
\* it returns the candidate at the same position and leaves the list as it
\* is
C23_SecondApplicationSelectsSame ==
  last.kind = "matched"
  => _findBestMatch(last.dishName, last.best.list) = last.best

\* a second rule-3 candidate follows the selected one and the first
\* application attached a derived calorie value to the selected one
C23_Witness ==
  /\ last.kind = "matched"
  /\ last.best.list # last.list
  /\ last.best.index = 2
  /\ Len(last.list) = 3
  /\ PositiveEnergy(last.list[3])
  /\ PositiveCalories(last.best.list[2])
  /\ ~PositiveCalories(last.list[2])

\* the entries of cache c that are served at instant t
Live(c, t) ==
  [k \in {key \in DOMAIN c : ~Expired(c[key], t)} |-> c[k]]

\* the step adds no entry to the cache and changes none
NothingWritten ==
  \A k \in DOMAIN cache' : k \in DOMAIN cache /\ cache'[k] = cache[k]

\* the results a batch handler has pushed after the step
ResultsAfter(p) ==
  IF pc'[p] = "batch" THEN loop'[p].results ELSE last'.results

\* C24: only successful computations are cached. A getCalories call that
\* fails validation, and a call whose search fails, finds nothing or finds no
\* usable calorie value, leaves the cache as it was; no step of a call up to
\* its await writes an entry or changes what the cache serves; and every
\* calorie entry a step writes is written as the search of a waiting call
\* settles, under that call's key, and is the result returned to its caller
C24_OnlySuccessesCached ==
  [][/\ \A p \in Callers : \A r \in RequestsOf(p) :
          (/\ ResolveStep(p, r)
           /\ Resolve(p, r.dishName, r.servings)) =>
            /\ NothingWritten
            /\ Live(cache', now) = Live(cache, now)
            /\ (pc' = pc /\ ~last'.ok) => cache' = cache
     /\ \A p \in Callers :
          (/\ pc[p] = "resolve"
           /\ pc'[p] = "idle"
           /\ ~last'.ok) => cache' = cache
     /\ \A p \in Callers :
          (/\ pc[p] = "batch"
           /\ loop'[p] # loop[p]
           /\ ResultsAfter(p) = loop[p].results) =>
            /\ NothingWritten
            /\ Live(cache', now) = Live(cache, now)
     /\ \A k \in DOMAIN cache' :
          (k \notin DOMAIN cache \/ cache'[k] # cache[k]) =>
            \E p \in Callers :
              /\ pc[p] \in {"resolve", "batch"}
              /\ k = _generateCacheKey(frame[p].dishName, frame[p].servings)
              /\ pc[p] = "resolve" =>
                   /\ pc'[p] = "idle"
                   /\ last'.kind = "calories"
                   /\ last'.ok
                   /\ last'.dishName = frame[p].dishName
                   /\ last'.result = cache'[k].v
              /\ pc[p] = "batch" =>
                   /\ Len(ResultsAfter(p)) > Len(loop[p].results)
                   /\ ResultsAfter(p)[Len(loop[p].results) + 1] = cache'[k].v]_vars

\* a call for 50 servings failed at the provider while the cache held the
\* entry of 1.5 servings, and holds that entry only
C24_Witness ==
  /\ last.kind = "calories"
  /\ ~last.ok
  /\ last.searched = 1
  /\ last.servings = Num(2 * MaxServings)
  /\ DOMAIN cache = {_generateCacheKey(Pizza, Num(3))}
  /\ upstream = 2

\* C25: one getCalories invocation issues exactly one upstream search when
\* its input is valid and its key is not served by the cache, and none when
\* it fails validation or hits the cache; when its search settles, with a
\* list or with a failure, the invocation ends without another search; and a
\* search is issued only by a call (or a batch item) that starts waiting
C25_OneSearchPerMiss ==
  [][/\ \A p \in Callers : \A r \in RequestsOf(p) :
          (/\ ResolveStep(p, r)
           /\ Resolve(p, r.dishName, r.servings)) =>
            IF _validateInput(r.dishName, r.servings) # NoError
            THEN /\ upstream' = upstream
                 /\ pc' = pc
                 /\ ~last'.ok
                 /\ last'.searched = 0
            ELSE IF CacheHit(cache, _generateCacheKey(r.dishName, r.servings),
                             now)
            THEN /\ upstream' = upstream
                 /\ pc' = pc
                 /\ last'.hit
                 /\ last'.searched = 0
            ELSE /\ upstream' = upstream + 1
                 /\ pc'[p] = "resolve"
     /\ \A p \in Callers :
          (pc[p] = "resolve" /\ <<pc[p], frame[p]>>' # <<pc[p], frame[p]>>) =>
            /\ pc'[p] = "idle"
            /\ upstream' = upstream
            /\ last'.kind = "calories"
            /\ last'.searched = 1
     /\ upstream' # upstream =>
          /\ upstream' = upstream + 1
          /\ \E p \in Callers :
               \/ pc[p] = "idle" /\ pc'[p] \in {"resolve", "batch"}
               \/ /\ pc[p] = "batch"
                  /\ pc'[p] = "batch"
                  /\ loop'[p].i > loop[p].i]_vars

\* a call whose one search was refused for the rate limit has ended, and no
\* other search has been issued
C25_Witness ==
  /\ last.kind = "calories"
  /\ ~last.ok
  /\ last.searched = 1
  /\ last.error = "Service temporarily busy, please try again in a few minutes"
  /\ upstream = 1
  /\ \A p \in Callers : pc[p] = "idle"

\* another caller awaits the search of a getCalories call with the key of r
AwaitedByAnother(p, r) ==
  \E q \in Callers \ {p} :
    /\ pc[q] = "resolve"
    /\ _generateCacheKey(frame[q].dishName, frame[q].servings) =
         _generateCacheKey(r.dishName, r.servings)

HasUserContext(record) ==
  "userId" \in DOMAIN record \/ "userName" \in DOMAIN record

C28_SucceedsWhenCaloriesExist ==
  (/\ last.kind = "resumed"
   /\ _validateInput(last.dishName, last.servings) = NoError
   /\ last.settled.ok
   /\ \E i \in 1..Len(last.settled.list) :
        PositiveCalories(last.settled.list[i]))
  => /\ last.step.kind = "return"
     /\ last.step.error \notin NotFoundErrors
     /\ last.step.result.calories_per_serving # 0
     /\ \E i \in 1..Len(last.settled.list) :
          /\ last.settled.list[i].calories.some
          /\ last.settled.list[i].calories.v =
               last.step.result.calories_per_serving

\* the first candidate, named as the dish, has the calorie value 0, and the
\* call returned the 101 calories of the second
C28_Witness ==
  /\ last.kind = "resumed"
  /\ last.settled.ok
  /\ last.settled.list = <<PizzaZero, PizzaPie>>
  /\ last.step.kind = "return"
  /\ last.step.result.calories_per_serving = 101

\* the keys whose entry the step adds, removes or changes
ChangedKeys ==
  {key \in DOMAIN cache \cup DOMAIN cache' :
     \/ key \notin DOMAIN cache
     \/ key \notin DOMAIN cache'
     \/ cache'[key] # cache[key]}

\* the keys of the cache with the prefix
KeysWith(prefix) == {key \in DOMAIN cache : HasPrefix(key, prefix)}

\* C29: calorie results, search lists and food details occupy disjoint key
\* spaces of the one cache. Every key of the cache carries exactly one of the
\* prefixes 'calories_', 'search_' and 'food_'; each of getCalories,
\* searchFood and getFoodDetails adds, removes and changes entries of its own
\* prefix only and is served from an entry of its own prefix only; and a call
\* of one of them is a miss whenever the cache holds no entry of its prefix,
\* whatever the other two have written: a prior searchFood for the same text
\* does not make getCalories hit
C29_DisjointKeySpaces ==
  /\ [](\A key \in DOMAIN cache :
          Cardinality({prefix \in {CaloriesPrefix, SearchPrefix, FoodPrefix} :
                         HasPrefix(key, prefix)}) = 1)
  /\ [][/\ \A r \in LookupRequests :
             (ResolveStep("c1", r) /\ Resolve("c1", r.dishName, r.servings)) =>
               /\ \A key \in ChangedKeys : HasPrefix(key, CaloriesPrefix)
               /\ pc' = pc =>
                    \E key \in KeysWith(CaloriesPrefix) :
                      last'.hit /\ last'.result = cache[key].v
               /\ KeysWith(CaloriesPrefix) = {} => pc'["c1"] = "resolve"
        /\ (pc["c1"] = "resolve" /\ pc'["c1"] = "idle") =>
             \A key \in ChangedKeys : HasPrefix(key, CaloriesPrefix)
        /\ \A query \in LookupQueries : \A options \in LookupOptions :
             SearchFood("c1", query, options) =>
               /\ \A key \in ChangedKeys : HasPrefix(key, SearchPrefix)
               /\ (pc' = pc /\ last'.ok) =>
                    \E key \in KeysWith(SearchPrefix) :
                      last'.hit /\ last'.result = cache[key].v
               /\ (KeysWith(SearchPrefix) = {} /\ pc' = pc) => ~last'.ok
        /\ (pc["c1"] = "search" /\ pc'["c1"] = "idle") =>
             \A key \in ChangedKeys : HasPrefix(key, SearchPrefix)
        /\ \A foodId \in LookupFoodIds :
             GetFoodDetails("c1", foodId) =>
               /\ \A key \in ChangedKeys : HasPrefix(key, FoodPrefix)
               /\ (pc' = pc /\ last'.ok) =>
                    \E key \in KeysWith(FoodPrefix) :
                      last'.hit /\ last'.result = cache[key].v
               /\ (KeysWith(FoodPrefix) = {} /\ pc' = pc) => ~last'.ok
        /\ (pc["c1"] = "details" /\ pc'["c1"] = "idle") =>
             \A key \in ChangedKeys : HasPrefix(key, FoodPrefix)]_vars

\* getCalories for 'pizza' has missed and awaits its search while the cache
\* serves the list a searchFood for 'pizza' has written
C29_Witness ==
  /\ pc["c1"] = "resolve"
  /\ frame["c1"] = Request(Pizza, Num(3))
  /\ CacheHit(cache, SearchCacheKey(Pizza, Options(Some(10))), now)
  /\ KeysWith(CaloriesPrefix) = {}

\* the positions of a batch whose dish was resolved
ReturnedPositions(o) == {i \in 1..Len(o.trace) : o.trace[i] = "returned"}

\* the position of the k-th resolved dish
ReturnedPosition(o, k) ==
  CHOOSE i \in ReturnedPositions(o) :
    Cardinality({j \in ReturnedPositions(o) : j <= i}) = k

\* the two lists of a batch hold the dishes processed so far in their input
\* order: the k-th result is the result of the k-th resolved dish and the
\* k-th error is the record of the k-th failed dish
OrderKept(o) ==
  /\ Len(o.results) = Cardinality(ReturnedPositions(o))
  /\ Len(o.errors) = Cardinality(FailedPositions(o))
  /\ \A k \in 1..Len(o.results) :
       o.results[k].servings = o.dishes[ReturnedPosition(o, k)].servings
  /\ \A k \in 1..Len(o.errors) :
       o.errors[k].dish = o.dishes[FailedPosition(o, k)]

\* C30: the items of a batch are processed one at a time in input order: the
\* results hold the successful items and the errors the failed items, each in
\* their relative input order, in the response and while the batch runs; a
\* batch awaits the search of one item only, item i, after every item before
\* i has finished and before any item after i has started; and the two lists
\* only grow at their ends
C30_BatchInInputOrder ==
  /\ [](/\ last.kind = "batch" =>
             /\ OrderKept(last)
             /\ Len(last.trace) = Len(last.dishes)
          /\ \A p \in Callers :
               pc[p] = "batch" =>
                 /\ OrderKept(loop[p])
                 /\ loop[p].i \in 1..Len(loop[p].dishes)
                 /\ Len(loop[p].trace) = loop[p].i - 1
                 /\ frame[p] = Request(loop[p].dishes[loop[p].i].dish_name,
                                       loop[p].dishes[loop[p].i].servings))
  /\ [][\A p \in Callers :
          (pc[p] = "batch" /\ loop'[p] # loop[p]) =>
            LET after == IF pc'[p] = "batch" THEN loop'[p] ELSE last'
            IN /\ Len(after.trace) > Len(loop[p].trace)
               /\ SubSeq(after.trace, 1, Len(loop[p].trace)) = loop[p].trace
               /\ SubSeq(after.results, 1, Len(loop[p].results)) =
                    loop[p].results
               /\ SubSeq(after.errors, 1, Len(loop[p].errors)) =
                    loop[p].errors
               /\ upstream' - upstream \in {0, 1}]_vars

\* a batch of four dishes answered with the results of its first dish (50
\* servings) and its fourth (1.5 servings), in that order, and the errors of
\* its second and third
C30_Witness ==
  /\ last.kind = "batch"
  /\ last.trace = <<"returned", "threw", "skipped", "returned">>
  /\ last.results[1].servings = Num(2 * MaxServings)
  /\ last.results[2].servings = Num(3)
  /\ last.errors[1].dish = TooManyServings
  /\ last.errors[2].dish = RequiredMissing

====
